---- MODULE Spec2Model ----
(***************************************************************************)
(* Support-case MCP server: the Salesforce client adapter                  *)
(* (salesforce_client.py) and the tool router (server.py).                 *)
(*                                                                         *)
(* Strings are TLA+ strings; Len, SubSeq and \o work on them character by  *)
(* character, so escaping, substring search and text formatting are        *)
(* computed the way the Python code computes them.                         *)
(***************************************************************************)
EXTENDS Integers, Sequences, FiniteSets, TLC

VARIABLES
    sf,          \* SalesforceClient.sf: TRUE once the connection is established
    cases,       \* CRM: Case records by case number
    comments,    \* CRM: number of CaseComment records per case Id
    kav,         \* CRM: knowledge articles created, in creation order
    caseArticle, \* CRM: CaseArticle junction records
    emails,      \* CRM: emails sent / EmailMessage records created
    call,        \* the call_tool invocation in progress or just returned
    term,        \* escaping: the text handed to an escape function
    built,       \* escaping: what the adapter built from it
    pending      \* update_case between its read of the case and its update

vars == <<sf, cases, comments, kav, caseArticle, emails, call, term, built, pending>>
(***************************************************************************)
(* Python values and string primitives                                     *)
(***************************************************************************)

\* Python's None.  f-strings render it as the text "None".
None == "<None>"

Truthy(x) == x # None /\ x # ""

Str(x) == IF x = None THEN "None" ELSE x

CharAt(s, i) == SubSeq(s, i, i)

\* Python: k in t
Contains(t, k) ==
    \E i \in 1..(Len(t) - Len(k) + 1) : SubSeq(t, i, i + Len(k) - 1) = k

StartsAt(t, k, i) ==
    /\ i + Len(k) - 1 <= Len(t)
    /\ SubSeq(t, i, i + Len(k) - 1) = k

\* Python: sep.join(lines), computed by halves
RECURSIVE Join(_, _)
Join(lines, sep) ==
    IF lines = << >> THEN ""
    ELSE IF Len(lines) = 1 THEN lines[1]
    ELSE Join(SubSeq(lines, 1, Len(lines) \div 2), sep) \o sep
         \o Join(SubSeq(lines, Len(lines) \div 2 + 1, Len(lines)), sep)

RECURSIVE ReplaceFrom(_, _, _, _)
ReplaceFrom(s, old, new, i) ==
    IF i > Len(s) THEN ""
    ELSE IF StartsAt(s, old, i)
         THEN new \o ReplaceFrom(s, old, new, i + Len(old))
         ELSE CharAt(s, i) \o ReplaceFrom(s, old, new, i + 1)

\* Python: s.replace(old, new), old non-empty: leftmost non-overlapping matches
Replace(s, old, new) == ReplaceFrom(s, old, new, 1)

Whitespace == {" ", "\t", "\n", "\r"}

\* Python: s.strip()
RECURSIVE Strip(_)
Strip(s) ==
    IF s # "" /\ CharAt(s, 1) \in Whitespace THEN Strip(SubSeq(s, 2, Len(s)))
    ELSE IF s # "" /\ CharAt(s, Len(s)) \in Whitespace
    THEN Strip(SubSeq(s, 1, Len(s) - 1))
    ELSE s

RECURSIVE SplitFrom(_, _, _)
SplitFrom(s, i, cur) ==
    IF i > Len(s) THEN (IF cur = "" THEN << >> ELSE <<cur>>)
    ELSE IF CharAt(s, i) \in Whitespace
         THEN (IF cur = "" THEN << >> ELSE <<cur>>) \o SplitFrom(s, i + 1, "")
         ELSE SplitFrom(s, i + 1, cur \o CharAt(s, i))

\* Python: s.split(): the maximal runs of non-whitespace characters
Split(s) == SplitFrom(s, 1, "")

(***************************************************************************)
(* Escaping (salesforce_client.py)                                         *)
(***************************************************************************)

reserved_chars ==
    { "\\", "?", "&", "|", "!", "{", "}", "[", "]", "(", ")",
      "^", "~", "*", ":", "\"", "'", "+", "-" }

\* faulty variant: the backslash itself is left out of the reserved list
RECURSIVE EscapeSoslNoBackslash(_, _)
EscapeSoslNoBackslash(text, i) ==
    IF i > Len(text) THEN ""
    ELSE (IF CharAt(text, i) \in (reserved_chars \ {"\\"})
          THEN "\\" \o CharAt(text, i)
          ELSE CharAt(text, i)) \o EscapeSoslNoBackslash(text, i + 1)

\* the loop of _escape_sosl over the characters of text, from the i-th on
RECURSIVE EscapeSoslLoop(_, _)
EscapeSoslLoop(text, i) ==
    IF i > Len(text) THEN ""
    ELSE (IF CharAt(text, i) \in reserved_chars
          THEN "\\" \o CharAt(text, i)
          ELSE CharAt(text, i)) \o EscapeSoslLoop(text, i + 1)

\* faulty variant: every character is escaped, reserved or not
RECURSIVE EscapeEveryChar(_)
EscapeEveryChar(text) ==
    IF Len(text) = 0 THEN text
    ELSE "\\" \o CharAt(text, 1) \o EscapeEveryChar(SubSeq(text, 2, Len(text)))

escape_sosl(text) ==
    IF ~Truthy(text) THEN text ELSE EscapeSoslLoop(text, 1)

escape_soql(text) ==
    IF ~Truthy(text) THEN text
    ELSE Replace(Replace(text, "'", "\\'"), "\\", "\\\\")

\* _search_cases_sosl: the SOSL expression built around the escaped query
SoslFindPrefix == "FIND {"
sosl_query(query_text) ==
    SoslFindPrefix \o Str(escape_sosl(query_text))
    \o "} IN ALL FIELDS RETURNING Case(Id, CaseNumber, Subject, Status, Description)"

\* _search_cases_fuzzy / get_related_cases: one LIKE condition on a field
like_condition(field, t) ==
    field \o " LIKE '%" \o Str(escape_soql(t)) \o "%'"

(***************************************************************************)
(* The CRM and the adapter's calls to it                                   *)
(*                                                                         *)
(* An adapter method maps a running state s = [sf, db, log, raised, ret]   *)
(* to the state after it: sf the connection flag, db the CRM's records,    *)
(* log the calls made so far, raised whether an exception is propagating,  *)
(* ret the value returned.  env carries what the CRM answers in this       *)
(* invocation: which calls fail and how many rows the child queries hold.  *)
(***************************************************************************)

\* Bind(v, K) names the value v for what follows, as an assignment does
Bind(v, K(_)) == K(v)

\* a None where the code holds a record (dict) or nothing
NoneRec == [none |-> TRUE]

Up(op, arg, out, n) ==
    [layer |-> "upstream", op |-> op, arg |-> arg, out |-> out, n |-> n]

Ad(op, arg) ==
    [layer |-> "adapter", op |-> op, arg |-> arg, out |-> "", n |-> 0]

Logged(s, e) == [s EXCEPT !.log = Append(@, e)]

Returning(s, v) == [s EXCEPT !.ret = v]

\* sf.query / sf.search / create / update inside a try block: the call is
\* logged with its outcome; Failed tells the except branch was taken
Failed(env, op) == op \in env.fail

\* faulty variant: the upstream call is issued twice
AttemptTwice(s, env, op, arg, n) ==
    Logged(Logged(s, Up(op, arg, IF Failed(env, op) THEN "error" ELSE "ok",
                         IF Failed(env, op) THEN 0 ELSE n)),
           Up(op, arg, IF Failed(env, op) THEN "error" ELSE "ok",
              IF Failed(env, op) THEN 0 ELSE n))

\* one upstream call: it is logged with its outcome
Attempt(s, env, op, arg, n) ==
    Logged(s, Up(op, arg, IF Failed(env, op) THEN "error" ELSE "ok",
                 IF Failed(env, op) THEN 0 ELSE n))

\* faulty variant: a new login on every call, whether or not one is held
connect_every_time(s, env) ==
    IF Failed(env, "login")
    THEN [Logged(s, Up("login", "", "error", 0))
             EXCEPT !.raised = TRUE, !.ret = NoneRec]
    ELSE [Logged(s, Up("login", "", "ok", 0)) EXCEPT !.sf = TRUE]

\* SalesforceClient.connect
connect(s, env) ==
    IF s.sf THEN s
    ELSE IF Failed(env, "login")
         THEN [Logged(s, Up("login", "", "error", 0))
                  EXCEPT !.raised = TRUE, !.ret = NoneRec]
         ELSE [Logged(s, Up("login", "", "ok", 0)) EXCEPT !.sf = TRUE]

\* SELECT ... FROM Case WHERE CaseNumber = '<case_number>' LIMIT 1
CaseFor(db, case_number) ==
    IF Str(case_number) \in DOMAIN db.cases
    THEN db.cases[Str(case_number)]
    ELSE NoneRec

\* faulty variant: a failed query is raised to the caller
CaseLookupRaising(s, env, op, case_number) ==
    Bind(connect(s, env), LAMBDA c :
    Bind(CaseFor(c.db, case_number), LAMBDA found :
        IF c.raised THEN c
        ELSE IF Failed(env, op)
             THEN [Attempt(c, env, op, Str(case_number), 0) EXCEPT !.raised = TRUE]
             ELSE Returning(Attempt(c, env, op, Str(case_number),
                                    IF found = NoneRec THEN 0 ELSE 1), found)))

\* the lookup shared by get_case and get_case_with_status
CaseLookup(s, env, op, case_number) ==
    Bind(connect(s, env), LAMBDA c :
    Bind(CaseFor(c.db, case_number), LAMBDA found :
        IF c.raised THEN c
        ELSE IF Failed(env, op)
             THEN Returning(Attempt(c, env, op, Str(case_number), 0), NoneRec)
             ELSE Returning(Attempt(c, env, op, Str(case_number),
                                    IF found = NoneRec THEN 0 ELSE 1), found)))

get_case(s, env, case_number) == CaseLookup(s, env, "query:Case", case_number)

get_case_with_status(s, env, case_number) ==
    CaseLookup(s, env, "query:CaseStatus", case_number)

\* rows of a child query, newest first; the CRM applies the query's LIMIT
Rows(kind, n) == [i \in 1..n |-> [kind |-> kind, no |-> i]]

Min(a, b) == IF a < b THEN a ELSE b

\* a list read: connect, then one query in a try block; [] on failure
ListRead(s, env, op, arg, rows) ==
    Bind(connect(s, env), LAMBDA c :
        IF c.raised THEN c
        ELSE Returning(Attempt(c, env, op, arg, Len(rows)),
                       IF Failed(env, op) THEN << >> ELSE rows))

CommentsOf(db, case_id) ==
    IF case_id \in DOMAIN db.comments THEN db.comments[case_id] ELSE 0

get_case_comments(s, env, case_id) ==
    ListRead(s, env, "query:CaseComment", case_id,
             Rows("comment", CommentsOf(s.db, case_id)))

HistoryLimit == 20

get_case_history(s, env, case_id) ==
    ListRead(s, env, "query:CaseHistory", case_id,
             Rows("history", Min(env.history, HistoryLimit)))

FeedLimit == 20

get_case_feed(s, env, case_id) ==
    ListRead(s, env, "query:CaseFeed", case_id,
             Rows("feed", Min(env.feed, FeedLimit)))

(***************************************************************************)
(* Search: SOSL first, SOQL LIKE as the fallback                           *)
(***************************************************************************)

SearchRecords(n) == [i \in 1..n |-> ([CaseNumber |-> "0040000" \o ToString(i),
                                      Subject |-> "Printer error " \o ToString(i),
                                      Status |-> "New",
                                      Description |-> "Printer reports an error"])]

\* _search_cases_sosl; the debug.log write is left out
search_cases_sosl(s, env, query_text) ==
    Bind(Logged(s, Ad("_search_cases_sosl", Str(query_text))), LAMBDA a :
        Returning(Attempt(a, env, "search", sosl_query(query_text), env.sosl),
                  IF Failed(env, "search") THEN << >> ELSE SearchRecords(env.sosl)))

MinTermLen == 2

\* faulty variant: every token is a term, however short
fuzzy_terms_unfiltered(query_text) == Split(query_text)

\* terms = [t.strip() for t in query_text.split() if len(t.strip()) >= 2]
fuzzy_terms(query_text) ==
    SelectSeq(Split(query_text), LAMBDA t : Len(Strip(t)) >= MinTermLen)

RECURSIVE LikeConditions(_, _)
LikeConditions(terms, i) ==
    IF i > Len(terms) THEN << >>
    ELSE << like_condition("Subject", terms[i]),
            like_condition("Description", terms[i]) >>
         \o LikeConditions(terms, i + 1)

FuzzyLimit == 50

\* _search_cases_fuzzy: None.split() raises inside the try block
search_cases_fuzzy(s, env, query_text) ==
    Bind(Logged(s, Ad("_search_cases_fuzzy", Str(query_text))), LAMBDA a :
        IF query_text = None THEN Returning(a, << >>)
        ELSE IF fuzzy_terms(query_text) = << >> THEN Returning(a, << >>)
        ELSE Returning(
                 Attempt(a, env, "query:Fuzzy",
                         Join(LikeConditions(fuzzy_terms(query_text), 1), " OR "),
                         Min(env.fuzzy, FuzzyLimit)),
                 IF Failed(env, "query:Fuzzy") THEN << >>
                 ELSE SearchRecords(Min(env.fuzzy, FuzzyLimit))))

\* faulty variant: the fallback runs whatever the full-text search returned
search_cases_always_fallback(s, env, query_text) ==
    Bind(connect(s, env), LAMBDA c :
        IF c.raised THEN c
        ELSE search_cases_fuzzy(search_cases_sosl(c, env, query_text), env, query_text))

search_cases(s, env, query_text) ==
    Bind(connect(s, env), LAMBDA c :
    Bind(search_cases_sosl(c, env, query_text), LAMBDA results :
        IF c.raised THEN c
        ELSE IF results.ret # << >> THEN results
        ELSE search_cases_fuzzy(results, env, query_text)))

(***************************************************************************)
(* Case summaries and closure readiness                                    *)
(***************************************************************************)

Take(seq, n) == SubSeq(seq, 1, Min(n, Len(seq)))

\* Python: x or ''
OrText(x, default) == IF Truthy(x) THEN x ELSE default

\* faulty variant: a fix alone counts as ready
closure_readiness_fix_only(fix_status, validation_status) ==
    IF fix_status = "Implemented" THEN "ready"
    ELSE "in_progress"

\* the three-way conditional of get_case_summary_data
summary_closure_readiness(fix_status, validation_status) ==
    IF fix_status = "Implemented" /\ validation_status = "Completed" THEN "ready"
    ELSE IF fix_status = "Implemented" THEN "pending_validation"
    ELSE "in_progress"

\* the three-way conditional of get_comprehensive_case_data
comprehensive_closure_readiness(fix_status, validation_status) ==
    IF fix_status = "Implemented" /\ validation_status = "Completed" THEN "ready"
    ELSE IF fix_status = "Implemented" THEN "pending_validation"
    ELSE "in_progress"

case_info(case) ==
    [CaseNumber |-> case.CaseNumber,
     Subject |-> case.Subject,
     Description |-> case.Description,
     Status |-> case.Status,
     Priority |-> case.Priority,
     CreatedDate |-> case.CreatedDate,
     LastModifiedDate |-> case.LastModifiedDate,
     ContactName |-> case.ContactName]

SummaryHistory == 10
SummaryComments == 5
SummaryFeed == 10

get_case_summary_data(s, env, case_number) ==
    Bind(get_case_with_status(s, env, case_number), LAMBDA k :
    Bind(k.ret, LAMBDA case :
    Bind(get_case_history(k, env, case.Id), LAMBDA h :
    Bind(get_case_comments(h, env, case.Id), LAMBDA cm :
    Bind(get_case_feed(cm, env, case.Id), LAMBDA fd :
    Bind(case.Fix_Status__c, LAMBDA fix_status :
    Bind(case.Validation_Status__c, LAMBDA validation_status :
        IF k.raised \/ case = NoneRec THEN Returning(k, NoneRec)
        ELSE Returning(fd,
               [case_info |-> case_info(case),
                technical_summary |->
                    [fix_status |-> fix_status,
                     validation_status |-> validation_status,
                     closure_readiness |->
                         summary_closure_readiness(fix_status, validation_status)],
                history |-> Take(h.ret, SummaryHistory),
                recent_comments |-> Take(cm.ret, SummaryComments),
                feed_items |-> Take(fd.ret, SummaryFeed)]))))))))

RelatedMinWordLen == 3
RelatedMaxWords == 3
RelatedLimit == 10

\* words = [w for w in subject.split() if len(w) > 3][:3]
related_words(subject) ==
    Take(SelectSeq(Split(subject), LAMBDA w : Len(w) > RelatedMinWordLen),
         RelatedMaxWords)

RECURSIVE RelatedConditions(_, _)
RelatedConditions(words, i) ==
    IF i > Len(words) THEN << >>
    ELSE <<like_condition("Subject", words[i])>> \o RelatedConditions(words, i + 1)

get_related_cases(s, env, case_id, subject) ==
    Bind(connect(s, env), LAMBDA c :
    Bind(Min(env.related, RelatedLimit), LAMBDA n :
        IF c.raised THEN c
        ELSE IF subject = None \/ related_words(subject) = << >>
             THEN Returning(c, << >>)
        ELSE Returning(
                 Attempt(c, env, "query:Related",
                         Join(RelatedConditions(related_words(subject), 1), " OR "), n),
                 IF Failed(env, "query:Related") THEN << >>
                 ELSE [i \in 1..n |-> ([CaseNumber |-> "0050000" \o ToString(i),
                                        Subject |-> "Similar case " \o ToString(i),
                                        Status |-> "Closed"])])))

ArticleLimit == 10

get_case_articles(s, env, case_id) ==
    Bind(Take((SelectSeq(s.db.kav,
                         LAMBDA a : [CaseId |-> case_id, KnowledgeArticleId |-> a.id]
                                        \in s.db.caseArticle)), ArticleLimit), LAMBDA linked :
        ListRead(s, env, "query:CaseArticle", case_id,
                 [i \in 1..Len(linked) |->
                     [KnowledgeArticleId |-> linked[i].id,
                      KnowledgeArticle |->
                          [Title |-> linked[i].Title, UrlName |-> linked[i].UrlName]]]))

\* days since LastModifiedDate; NoDays where the code holds None
NoDays == -1

RecentDays == 7
StaleDays == 14
ManyRelated == 3
ComprehensiveRelated == 5

\* faulty variant: the checks form one chain, so only the first that holds is
\* reported
risk_factors_chained(days_since_update, n_comments, priority, closure_readiness, n_related) ==
    IF days_since_update # NoDays /\ days_since_update # 0
       /\ days_since_update > StaleDays
    THEN <<"No activity for 14+ days">>
    ELSE IF n_comments = 0 THEN <<"No comments on case">>
    ELSE IF priority = "High" /\ closure_readiness # "ready"
    THEN <<"High priority case not yet resolved">>
    ELSE IF n_related > ManyRelated
    THEN <<"Multiple similar cases exist - possible systemic issue">>
    ELSE << >>

risk_factors(days_since_update, n_comments, priority, closure_readiness, n_related) ==
    (IF days_since_update # NoDays /\ days_since_update # 0
        /\ days_since_update > StaleDays
     THEN <<"No activity for 14+ days">> ELSE << >>)
    \o (IF n_comments = 0 THEN <<"No comments on case">> ELSE << >>)
    \o (IF priority = "High" /\ closure_readiness # "ready"
        THEN <<"High priority case not yet resolved">> ELSE << >>)
    \o (IF n_related > ManyRelated
        THEN <<"Multiple similar cases exist - possible systemic issue">>
        ELSE << >>)

get_comprehensive_case_data(s, env, case_number, depth) ==
    Bind(get_case_with_status(s, env, case_number), LAMBDA k :
    Bind(k.ret, LAMBDA case :
    Bind(OrText(case.Fix_Status__c, ""), LAMBDA fix_status :
    Bind(OrText(case.Validation_Status__c, ""), LAMBDA validation_status :
    Bind(comprehensive_closure_readiness(fix_status, validation_status), LAMBDA closure_readiness :
    Bind(IF Truthy(case.LastModifiedDate) THEN env.days ELSE NoDays, LAMBDA days_since_update :
    Bind([f \in DOMAIN case_info(case) \cup {"DaysSinceUpdate"} |->
             IF f = "DaysSinceUpdate" THEN days_since_update
             ELSE case_info(case)[f]], LAMBDA info :
    Bind([fix_status |-> fix_status,
          validation_status |-> validation_status,
          closure_readiness |-> closure_readiness], LAMBDA tech :
    Bind(days_since_update # NoDays /\ days_since_update < RecentDays, LAMBDA recent :
    Bind(get_case_comments(k, env, case.Id), LAMBDA q :
    Bind(get_case_history(k, env, case.Id), LAMBDA h :
    Bind(get_case_comments(h, env, case.Id), LAMBDA cm :
    Bind(get_case_feed(cm, env, case.Id), LAMBDA fd :
    Bind(get_related_cases(fd, env, case.Id, case.Subject), LAMBDA rl :
    Bind(get_case_articles(rl, env, case.Id), LAMBDA ar :
        IF k.raised \/ case = NoneRec THEN Returning(k, NoneRec)
        ELSE IF depth = "quick"
        THEN Returning(q,
               [depth |-> "quick",
                case_info |-> info,
                technical_summary |-> tech,
                metrics |-> [total_comments |-> Len(q.ret),
                             has_recent_activity |-> recent]])
        ELSE Returning(ar,
               [depth |-> "full",
                case_info |-> info,
                technical_summary |-> tech,
                history |-> Take(h.ret, SummaryHistory),
                recent_comments |-> Take(cm.ret, SummaryComments),
                feed_items |-> Take(fd.ret, SummaryFeed),
                related_cases |-> Take(rl.ret, ComprehensiveRelated),
                knowledge_articles |-> ar.ret,
                metrics |-> [total_comments |-> Len(cm.ret),
                             total_history_changes |-> Len(h.ret),
                             related_cases_count |-> Len(rl.ret),
                             articles_count |-> Len(ar.ret),
                             has_recent_activity |-> recent,
                             days_since_update |-> days_since_update],
                risk_factors |->
                    risk_factors(days_since_update, Len(cm.ret), case.Priority,
                                 closure_readiness, Len(rl.ret))]))))))))))))))))

(***************************************************************************)
(* Schema, email, write and knowledge-article methods                      *)
(***************************************************************************)

UpstreamError == "upstream error"

\* describe_sobject: field_count of the describe result stands for its fields
SchemaFieldCount == 3

describe_sobject(s, env, object_name) ==
    Bind(connect(s, env), LAMBDA c :
    Bind("describe:" \o Str(object_name), LAMBDA op :
        IF c.raised THEN c
        ELSE Returning(Attempt(c, env, op, Str(object_name), 0),
               IF Failed(env, op)
               THEN [error |-> UpstreamError, object_name |-> object_name]
               ELSE [object_name |-> object_name,
                     label |-> Str(object_name),
                     updateable |-> TRUE,
                     createable |-> TRUE,
                     field_count |-> SchemaFieldCount])))

workflow_objects == <<"Case", "CaseComment", "EmailMessage">>

describe_workflow_objects(s, env) ==
    Bind(describe_sobject(s, env, workflow_objects[1]), LAMBDA a :
    Bind(describe_sobject(a, env, workflow_objects[2]), LAMBDA b :
    Bind(describe_sobject(b, env, workflow_objects[3]), LAMBDA c :
    Bind(describe_sobject(c, env, "Knowledge__kav"), LAMBDA d :
        IF a.raised THEN a
        ELSE Returning(d, <<[name |-> workflow_objects[1], data |-> a.ret],
                            [name |-> workflow_objects[2], data |-> b.ret],
                            [name |-> workflow_objects[3], data |-> c.ret],
                            [name |-> "Knowledge__kav", data |-> d.ret]>>)))))

EmailLimit == 50

get_case_emails(s, env, case_id) ==
    ListRead(s, env, "query:EmailMessage", case_id,
             Rows("email", Min(env.emails, EmailLimit)))

NotFoundError(case_number) == "Case " \o Str(case_number) \o " not found"

Failure(error) == [success |-> FALSE, error |-> error]

\* the contact lookup of draft_case_email and send_case_email
ContactLookup(s, env, case_number) ==
    Bind(connect(s, env), LAMBDA c :
    Bind(CaseFor(c.db, case_number), LAMBDA found :
        IF c.raised THEN c
        ELSE Returning(Attempt(c, env, "query:CaseContact", Str(case_number),
                               IF found = NoneRec THEN 0 ELSE 1), found)))

\* faulty variant: the draft is also sent
draft_case_email_sent(s, env, case_number, message) ==
    Bind(ContactLookup(s, env, case_number), LAMBDA q :
    Bind(q.ret, LAMBDA case :
        IF q.raised THEN q
        ELSE IF Failed(env, "query:CaseContact")
             THEN Returning(q, Failure(UpstreamError))
        ELSE IF case = NoneRec
             THEN Returning(q, Failure(NotFoundError(case_number)))
        ELSE IF ~Truthy(case.ContactEmail)
             THEN Returning(q, Failure("No contact email found for this case"))
        ELSE Returning(
               [Attempt(q, env, "restful:emailSimple", case.Id, 0)
                   EXCEPT !.db.emails = @ + 1],
               [success |-> TRUE,
                case_number |-> case_number,
                to_email |-> case.ContactEmail,
                to_name |-> IF case.ContactName = None THEN "Customer"
                            ELSE case.ContactName,
                subject |-> "Re: Case " \o case.CaseNumber \o " - " \o Str(case.Subject),
                body |-> message])))

draft_case_email(s, env, case_number, message) ==
    Bind(ContactLookup(s, env, case_number), LAMBDA q :
    Bind(q.ret, LAMBDA case :
        IF q.raised THEN q
        ELSE IF Failed(env, "query:CaseContact")
             THEN Returning(q, Failure(UpstreamError))
        ELSE IF case = NoneRec
             THEN Returning(q, Failure(NotFoundError(case_number)))
        ELSE IF ~Truthy(case.ContactEmail)
             THEN Returning(q, Failure("No contact email found for this case"))
        ELSE Returning(q,
               [success |-> TRUE,
                case_number |-> case_number,
                to_email |-> case.ContactEmail,
                to_name |-> IF case.ContactName = None THEN "Customer"
                            ELSE case.ContactName,
                subject |-> "Re: Case " \o case.CaseNumber \o " - " \o Str(case.Subject),
                body |-> message])))

\* send_case_email: the email action, and on its failure an EmailMessage
\* record created directly
send_case_email(s, env, case_number, subject, body) ==
    Bind(ContactLookup(s, env, case_number), LAMBDA q :
    Bind(q.ret, LAMBDA case :
    Bind(Attempt(q, env, "restful:emailSimple", case.ContactEmail, 0), LAMBDA action :
    Bind(Attempt(action, env, "create:EmailMessage", case.Id, 0), LAMBDA record :
    Bind([success |-> TRUE,
          case_number |-> case_number,
          sent_to |-> case.ContactEmail,
          subject |-> subject], LAMBDA sent :
        IF q.raised THEN q
        ELSE IF Failed(env, "query:CaseContact")
             THEN Returning(q, Failure(UpstreamError))
        ELSE IF case = NoneRec
             THEN Returning(q, Failure(NotFoundError(case_number)))
        ELSE IF ~Truthy(case.ContactEmail)
             THEN Returning(q, Failure("No contact email found for this case"))
        ELSE IF ~Failed(env, "restful:emailSimple")
             THEN Returning([action EXCEPT !.db.emails = @ + 1], sent)
        ELSE IF ~Failed(env, "create:EmailMessage")
             THEN Returning([record EXCEPT !.db.emails = @ + 1], sent)
        ELSE Returning(record, Failure(UpstreamError)))))))

\* sf.Case.update(case_id, fields): the CRM overwrites the named fields
Updated(case, fields) ==
    [f \in DOMAIN case |-> IF f \in DOMAIN fields THEN fields[f] ELSE case[f]]

\* faulty variant: the update is refused when the case is no longer as it was read
update_case_if_unmodified(k, env, case, case_number, fields) ==
    Bind(Attempt(k, env, "update:Case", case.Id, 0), LAMBDA u :
        IF k.db.cases[case.CaseNumber] # case
        THEN Returning(k, Failure("Case was modified by another user"))
        ELSE IF Failed(env, "update:Case")
             THEN Returning(u, Failure(UpstreamError))
        ELSE Returning(
                 [u EXCEPT !.db.cases[case.CaseNumber] = Updated(@, fields)],
                 [success |-> TRUE,
                  case_number |-> case_number,
                  case_id |-> case.Id,
                  new_values |-> fields]))

\* update_case from case_id = case['Id'] on: the update goes to the Id that
\* was read, whatever the record k.db holds by now
update_case_by_id(k, env, case, case_number, fields) ==
    Bind(Attempt(k, env, "update:Case", case.Id, 0), LAMBDA u :
        IF Failed(env, "update:Case")
        THEN Returning(u, Failure(UpstreamError))
        ELSE Returning(
                 [u EXCEPT !.db.cases[case.CaseNumber] = Updated(@, fields)],
                 [success |-> TRUE,
                  case_number |-> case_number,
                  case_id |-> case.Id,
                  new_values |-> fields]))

update_case(s, env, case_number, fields) ==
    Bind(connect(s, env), LAMBDA c :
    Bind(get_case(c, env, case_number), LAMBDA k :
    Bind(k.ret, LAMBDA case :
        IF c.raised THEN c
        ELSE IF case = NoneRec
             THEN Returning(k, Failure(NotFoundError(case_number)))
        ELSE update_case_by_id(k, env, case, case_number, fields))))

add_case_comment(s, env, case_number, comment, is_public) ==
    Bind(connect(s, env), LAMBDA c :
    Bind(get_case(c, env, case_number), LAMBDA k :
    Bind(k.ret, LAMBDA case :
    Bind(Attempt(k, env, "create:CaseComment", case.Id, 0), LAMBDA u :
        IF c.raised THEN c
        ELSE IF case = NoneRec
             THEN Returning(k, Failure(NotFoundError(case_number)))
        ELSE IF Failed(env, "create:CaseComment")
             THEN Returning(u, Failure(UpstreamError))
        ELSE Returning(
                 [u EXCEPT !.db.comments[case.Id] = @ + 1],
                 [success |-> TRUE,
                  case_number |-> case_number,
                  case_id |-> case.Id,
                  comment_id |-> "00a" \o ToString(CommentsOf(u.db, case.Id) + 1),
                  is_public |-> is_public])))))

LowerCase ==
    [c \in {"A","B","C","D","E","F","G","H","I","J","K","L","M",
            "N","O","P","Q","R","S","T","U","V","W","X","Y","Z"} |->
        CASE c = "A" -> "a" [] c = "B" -> "b" [] c = "C" -> "c" [] c = "D" -> "d"
          [] c = "E" -> "e" [] c = "F" -> "f" [] c = "G" -> "g" [] c = "H" -> "h"
          [] c = "I" -> "i" [] c = "J" -> "j" [] c = "K" -> "k" [] c = "L" -> "l"
          [] c = "M" -> "m" [] c = "N" -> "n" [] c = "O" -> "o" [] c = "P" -> "p"
          [] c = "Q" -> "q" [] c = "R" -> "r" [] c = "S" -> "s" [] c = "T" -> "t"
          [] c = "U" -> "u" [] c = "V" -> "v" [] c = "W" -> "w" [] c = "X" -> "x"
          [] c = "Y" -> "y" [] c = "Z" -> "z"]

\* Python: t.lower()
RECURSIVE Lower(_)
Lower(t) ==
    IF t = "" THEN ""
    ELSE (IF CharAt(t, 1) \in DOMAIN LowerCase
          THEN LowerCase[CharAt(t, 1)] ELSE CharAt(t, 1))
         \o Lower(SubSeq(t, 2, Len(t)))

Digits == {"0", "1", "2", "3", "4", "5", "6", "7", "8", "9"}

RECURSIVE KeepChars(_, _, _)
KeepChars(t, keep, i) ==
    IF i > Len(t) THEN ""
    ELSE (IF CharAt(t, i) \in keep THEN CharAt(t, i) ELSE "")
         \o KeepChars(t, keep, i + 1)

UrlNameLen == 50

\* the UrlName generated from the title when none is given
generated_url_name(title) ==
    KeepChars(SubSeq(Replace(Replace(Lower(title), " ", "-"), "/", "-"),
                     1, Min(UrlNameLen, Len(title))),
              Digits \cup DOMAIN LowerCase
                     \cup { LowerCase[c] : c \in DOMAIN LowerCase } \cup {"-"}, 1)

\* linked_case keeps the case link the creation result reports
Created(s, id, title, url_name, object, linked_case) ==
    [s EXCEPT !.db.kav =
        Append(@, [id |-> id, Title |-> title, UrlName |-> url_name,
                   object |-> object, linked_case |-> linked_case])]

\* the linking step: the case is looked up, the junction record created, and
\* a failure of either is logged as a warning only
link_article(s, env, case_number, article_id) ==
    Bind(get_case(s, env, case_number), LAMBDA k :
    Bind(k.ret, LAMBDA case :
    Bind(Attempt(k, env, "create:CaseArticle", case.Id, 0), LAMBDA j :
        IF case = NoneRec THEN k
        ELSE IF Failed(env, "create:CaseArticle") THEN j
        ELSE [j EXCEPT !.db.caseArticle =
                 @ \cup {[CaseId |-> case.Id,
                          KnowledgeArticleId |-> article_id]}])))

\* faulty variant: linked_case is reported only when the link was created
create_article_reporting_link(s, env, title, summary, content, url_name, case_number) ==
    Bind(connect(s, env), LAMBDA c :
    Bind(IF Truthy(url_name) THEN url_name ELSE generated_url_name(title), LAMBDA url :
    Bind("ka" \o ToString(Len(c.db.kav) + 1), LAMBDA article_id :
    Bind(Attempt(c, env, "create:Knowledge__kav", url, 0), LAMBDA first :
    Bind(Attempt(first, env, "create:KnowledgeArticle", url, 0), LAMBDA second :
    Bind(IF ~Failed(env, "create:Knowledge__kav")
         THEN Created(first, article_id, title, url, "Knowledge__kav", case_number)
         ELSE Created(second, article_id, title, url, "KnowledgeArticle", case_number),
         LAMBDA made :
    Bind(IF Truthy(case_number)
         THEN link_article(made, env, case_number, article_id)
         ELSE made, LAMBDA done :
        IF c.raised THEN c
        ELSE IF Failed(env, "create:Knowledge__kav")
                /\ Failed(env, "create:KnowledgeArticle")
             THEN Returning(second,
                    Failure("Could not create Knowledge Article. Error: "
                            \o UpstreamError
                            \o ". Knowledge may not be enabled or accessible in this org."))
        ELSE Returning(done,
               [success |-> TRUE,
                article_id |-> article_id,
                title |-> title,
                url_name |-> url,
                linked_case |-> IF done.db.caseArticle # made.db.caseArticle
                                THEN case_number ELSE None,
                status |-> "Draft"]))))))))

create_knowledge_article(s, env, title, summary, content, url_name, case_number) ==
    Bind(connect(s, env), LAMBDA c :
    Bind(IF Truthy(url_name) THEN url_name ELSE generated_url_name(title), LAMBDA url :
    Bind("ka" \o ToString(Len(c.db.kav) + 1), LAMBDA article_id :
    Bind(Attempt(c, env, "create:Knowledge__kav", url, 0), LAMBDA first :
    Bind(Attempt(first, env, "create:KnowledgeArticle", url, 0), LAMBDA second :
    Bind(IF ~Failed(env, "create:Knowledge__kav")
         THEN Created(first, article_id, title, url, "Knowledge__kav", case_number)
         ELSE Created(second, article_id, title, url, "KnowledgeArticle", case_number),
         LAMBDA made :
    Bind(IF Truthy(case_number)
         THEN link_article(made, env, case_number, article_id)
         ELSE made, LAMBDA done :
        IF c.raised THEN c
        ELSE IF Failed(env, "create:Knowledge__kav")
                /\ Failed(env, "create:KnowledgeArticle")
             THEN Returning(second,
                    Failure("Could not create Knowledge Article. Error: "
                            \o UpstreamError
                            \o ". Knowledge may not be enabled or accessible in this org."))
        ELSE Returning(done,
               [success |-> TRUE,
                article_id |-> article_id,
                title |-> title,
                url_name |-> url,
                linked_case |-> case_number,
                status |-> "Draft"]))))))))

(***************************************************************************)
(* The tool router (server.py): one handler per tool.  A handler returns   *)
(* [raised, content, log, sf, db, inner]: content is the list of content   *)
(* blocks, inner the nested call_tool invocations it made.  The            *)
(* pictographs that open some lines of the texts are left out.             *)
(***************************************************************************)

TextResult(s, text) ==
    [raised |-> FALSE,
     content |-> <<[type |-> "text", text |-> text]>>,
     log |-> s.log, sf |-> s.sf, db |-> s.db, inner |-> << >>]

Propagated(s) ==
    [raised |-> TRUE, content |-> << >>,
     log |-> s.log, sf |-> s.sf, db |-> s.db, inner |-> << >>]

\* faulty variant: every output line is returned as a content block of its own
LinesAsBlocks(s, output) ==
    [raised |-> FALSE,
     content |-> [i \in 1..Len(output) |-> [type |-> "text", text |-> output[i]]],
     log |-> s.log, sf |-> s.sf, db |-> s.db, inner |-> << >>]

\* return [{"type": "text", "text": "\n".join(output)}]
Lines(s, output) == TextResult(s, Join(output, "\n"))

\* Python: arguments.get(key, default)
Get(arguments, key, default) ==
    IF key \in DOMAIN arguments THEN arguments[key] ELSE default

\* faulty variant: the message leaves the number out
CaseNotFoundNoNumber(case_number) == "Case not found."

CaseNotFound(case_number) == "Case " \o Str(case_number) \o " not found."

RowDate(r) == "2024-01-0" \o ToString(r.no)

CommentLine(r) ==
    "[" \o RowDate(r) \o "] Agent: comment " \o ToString(r.no)

MapLines(rows, F(_)) == [i \in 1..Len(rows) |-> F(rows[i])]

tool_search(s, env, arguments) ==
    Bind(Get(arguments, "query", None), LAMBDA query :
    Bind(search_cases(s, env, query), LAMBDA r :
        IF r.raised THEN Propagated(r)
        ELSE IF r.ret = << >>
        THEN TextResult(r, "No cases found matching that query.\n\nSUGGESTED: Try different keywords or use 'search_cases' for broader results.")
        ELSE Lines(r, MapLines(r.ret, LAMBDA row :
                                 row.CaseNumber \o ": " \o row.Subject
                                 \o " (" \o row.Status \o ")")
                      \o <<"", "SUGGESTED NEXT ACTIONS:",
                           "  fetch: Get full details for any case above",
                           "  analyze_case: Get comprehensive analysis with insights">>)))

\* fetch and get_case_details differ in the argument read and the footer
CaseDetails(s, env, case_number, footer) ==
    Bind(get_case(s, env, case_number), LAMBDA k :
    Bind(get_case_comments(k, env, k.ret.Id), LAMBDA cm :
        IF k.raised THEN Propagated(k)
        ELSE IF k.ret = NoneRec THEN TextResult(k, CaseNotFound(case_number))
        ELSE Lines(cm, (<<"Case: " \o k.ret.CaseNumber,
                          "Subject: " \o Str(k.ret.Subject),
                          "Status: " \o Str(k.ret.Status),
                          "Priority: " \o Str(k.ret.Priority),
                          "Description: " \o Str(k.ret.Description),
                          "\n--- Recent Comments ---">>) \o MapLines(cm.ret, CommentLine)
                       \o <<"", "SUGGESTED NEXT ACTIONS:">> \o footer)))

tool_fetch(s, env, arguments) ==
    CaseDetails(s, env, Get(arguments, "id", None),
                <<"  get_case_history: See what changes have been made",
                  "  get_related_cases: Find similar cases",
                  "  analyze_case: Get comprehensive analysis with AI insights">>)

tool_get_case_details(s, env, arguments) ==
    CaseDetails(s, env, Get(arguments, "case_number", None),
                <<"  get_case_history: See field change history",
                  "  get_case_timeline: See activity feed",
                  "  get_case_summary: Get closure readiness assessment">>)

SnippetLen == 100

RECURSIVE FlatMapLines(_, _, _)
FlatMapLines(rows, F(_), i) ==
    IF i > Len(rows) THEN << >>
    ELSE IF i = Len(rows) THEN F(rows[i])
    ELSE FlatMapLines(SubSeq(rows, i, (i + Len(rows)) \div 2), F, 1)
         \o FlatMapLines(rows, F, (i + Len(rows)) \div 2 + 1)

tool_search_cases(s, env, arguments) ==
    Bind(Get(arguments, "query_string", None), LAMBDA query :
    Bind(search_cases(s, env, query), LAMBDA r :
        IF r.raised THEN Propagated(r)
        ELSE IF r.ret = << >>
        THEN TextResult(r, "No cases found matching that query.\n\nSUGGESTED: Try broader keywords or check spelling.")
        ELSE Lines(r, <<"Found " \o ToString(Len(r.ret)) \o " cases:">>
                      \o FlatMapLines(r.ret, LAMBDA row :
                           <<"- [" \o row.CaseNumber \o "] " \o row.Subject
                             \o " (" \o row.Status \o ")">>
                           \o (IF Truthy(row.Description)
                               THEN <<"  Snippet: "
                                      \o Replace(SubSeq(row.Description, 1,
                                                        Min(SnippetLen, Len(row.Description))),
                                                 "\n", " ")
                                      \o (IF Len(row.Description) > SnippetLen
                                          THEN "..." ELSE "")>>
                               ELSE << >>), 1)
                      \o <<"", "SUGGESTED NEXT ACTIONS:",
                           "  get_case_details: Get full details for a specific case",
                           "  analyze_case: Get comprehensive analysis for any case",
                           "  get_related_cases: Find cases related to a specific case">>)))

tool_get_case_history(s, env, arguments) ==
    Bind(Get(arguments, "case_number", None), LAMBDA case_number :
    Bind(get_case(s, env, case_number), LAMBDA k :
    Bind(get_case_history(k, env, k.ret.Id), LAMBDA h :
        IF k.raised THEN Propagated(k)
        ELSE IF k.ret = NoneRec THEN TextResult(k, CaseNotFound(case_number))
        ELSE IF h.ret = << >>
        THEN TextResult(h, "No history found for case " \o Str(case_number)
                           \o ".\n\nSUGGESTED: Check get_case_timeline for activity feed.")
        ELSE Lines(h, <<"Case " \o Str(case_number) \o " - Field Change History:", "">>
                      \o MapLines(h.ret, LAMBDA row :
                             "[" \o RowDate(row)
                             \o "] Agent: Status changed from 'New' to 'Working'")
                      \o <<"", "SUGGESTED NEXT ACTIONS:",
                           "  get_case_timeline: See posts and activities",
                           "  get_case_summary: Get closure readiness assessment",
                           "  follow_up_case: Generate customer follow-up response">>))))

tool_get_case_timeline(s, env, arguments) ==
    Bind(Get(arguments, "case_number", None), LAMBDA case_number :
    Bind(get_case(s, env, case_number), LAMBDA k :
    Bind(get_case_feed(k, env, k.ret.Id), LAMBDA f :
        IF k.raised THEN Propagated(k)
        ELSE IF k.ret = NoneRec THEN TextResult(k, CaseNotFound(case_number))
        ELSE IF f.ret = << >>
        THEN TextResult(f, "No timeline/feed found for case " \o Str(case_number)
                           \o ".\n\nSUGGESTED: Check get_case_history for field changes.")
        ELSE Lines(f, <<"Case " \o Str(case_number) \o " - Activity Timeline:", "">>
                      \o MapLines(f.ret, LAMBDA row :
                             "[" \o RowDate(row) \o "] [TextPost] Agent: post "
                             \o ToString(row.no))
                      \o <<"", "SUGGESTED NEXT ACTIONS:",
                           "  get_case_summary: Get closure readiness assessment",
                           "  follow_up_case: Generate customer follow-up response",
                           "  analyze_case: Get comprehensive case analysis">>))))

SummaryShownChanges == 5
SummaryShownComments == 3

tool_get_case_summary(s, env, arguments) ==
    Bind(Get(arguments, "case_number", None), LAMBDA case_number :
    Bind(get_case_summary_data(s, env, case_number), LAMBDA d :
    Bind(d.ret.case_info, LAMBDA info :
    Bind(d.ret.technical_summary, LAMBDA tech :
        IF d.raised THEN Propagated(d)
        ELSE IF d.ret = NoneRec THEN TextResult(d, CaseNotFound(case_number))
        ELSE Lines(d,
               <<"=== Case Summary: " \o info.CaseNumber \o " ===",
                 "Subject: " \o Str(info.Subject),
                 "Status: " \o Str(info.Status),
                 "Priority: " \o Str(info.Priority),
                 "Created: " \o Str(info.CreatedDate),
                 "Last Modified: " \o Str(info.LastModifiedDate),
                 "",
                 "--- Technical Status ---",
                 "Fix Status: "
                    \o (IF Truthy(tech.fix_status) THEN tech.fix_status ELSE "Not set"),
                 "Validation Status: "
                    \o (IF Truthy(tech.validation_status) THEN tech.validation_status
                        ELSE "Not set"),
                 "Closure Readiness: " \o tech.closure_readiness,
                 "",
                 "--- Description ---",
                 IF Truthy(info.Description) THEN info.Description ELSE "(No description)",
                 "">>
               \o (IF d.ret.history # << >>
                   THEN <<"--- Recent Changes ---">>
                        \o MapLines(Take(d.ret.history, SummaryShownChanges),
                                    LAMBDA row : "  [" \o RowDate(row) \o "] Status -> Working")
                        \o <<"">>
                   ELSE << >>)
               \o (IF d.ret.recent_comments # << >>
                   THEN <<"--- Recent Comments ---">>
                        \o MapLines(Take(d.ret.recent_comments, SummaryShownComments),
                                    LAMBDA row : "  " \o CommentLine(row))
                   ELSE << >>))))))

\* faulty variant: an implemented fix is enough to be eligible
tool_suggest_article_once_fixed(s, env, arguments) ==
    Bind(Get(arguments, "case_number", None), LAMBDA case_number :
    Bind(get_case_summary_data(s, env, case_number), LAMBDA d :
    Bind(d.ret.case_info, LAMBDA info :
    Bind(d.ret.technical_summary.closure_readiness, LAMBDA readiness :
    Bind(readiness # "in_progress", LAMBDA eligible :
    Bind(IF readiness = "ready"
         THEN "Resolved technical issue with documented fix and completed validation."
         ELSE IF readiness = "pending_validation"
         THEN "Fix is implemented but validation is not yet complete."
         ELSE "Case is still in progress.", LAMBDA reason :
    Bind(IF readiness = "ready"
         THEN "This resolved technical issue can be reused as a reference.\nWould you like to convert this solution into a Knowledge Article for future cases?\n\nSuggested KBA Title: "
         \o Str(info.Subject) \o "\nCase Reference: " \o info.CaseNumber
         ELSE IF readiness = "pending_validation"
         THEN "Complete validation before considering KBA creation."
         ELSE "Resolve the case before considering KBA creation.", LAMBDA prompt :
        IF d.raised THEN Propagated(d)
        ELSE IF d.ret = NoneRec THEN TextResult(d, CaseNotFound(case_number))
        ELSE Lines(d,
               <<"=== Knowledge Article Eligibility: " \o info.CaseNumber \o " ===",
                 "Eligible: " \o (IF eligible THEN "Yes" ELSE "No"),
                 "Reason: " \o reason,
                 "",
                 prompt>>))))))))

tool_suggest_knowledge_article(s, env, arguments) ==
    Bind(Get(arguments, "case_number", None), LAMBDA case_number :
    Bind(get_case_summary_data(s, env, case_number), LAMBDA d :
    Bind(d.ret.case_info, LAMBDA info :
    Bind(d.ret.technical_summary.closure_readiness, LAMBDA readiness :
    Bind(readiness = "ready", LAMBDA eligible :
    Bind(IF readiness = "ready"
         THEN "Resolved technical issue with documented fix and completed validation."
         ELSE IF readiness = "pending_validation"
         THEN "Fix is implemented but validation is not yet complete."
         ELSE "Case is still in progress.", LAMBDA reason :
    Bind(IF readiness = "ready"
         THEN "This resolved technical issue can be reused as a reference.\nWould you like to convert this solution into a Knowledge Article for future cases?\n\nSuggested KBA Title: "
         \o Str(info.Subject) \o "\nCase Reference: " \o info.CaseNumber
         ELSE IF readiness = "pending_validation"
         THEN "Complete validation before considering KBA creation."
         ELSE "Resolve the case before considering KBA creation.", LAMBDA prompt :
        IF d.raised THEN Propagated(d)
        ELSE IF d.ret = NoneRec THEN TextResult(d, CaseNotFound(case_number))
        ELSE Lines(d,
               <<"=== Knowledge Article Eligibility: " \o info.CaseNumber \o " ===",
                 "Eligible: " \o (IF eligible THEN "Yes" ELSE "No"),
                 "Reason: " \o reason,
                 "",
                 prompt>>))))))))

tool_get_related_cases(s, env, arguments) ==
    Bind(Get(arguments, "case_number", None), LAMBDA case_number :
    Bind(get_case(s, env, case_number), LAMBDA k :
    Bind(get_related_cases(k, env, k.ret.Id, k.ret.Subject), LAMBDA r :
        IF k.raised THEN Propagated(k)
        ELSE IF k.ret = NoneRec THEN TextResult(k, CaseNotFound(case_number))
        ELSE IF r.ret = << >>
        THEN TextResult(r, "No related cases found for " \o Str(case_number) \o ".")
        ELSE Lines(r, <<"Cases related to " \o Str(case_number) \o ":", "">>
                      \o MapLines(r.ret, LAMBDA row :
                             "- [" \o row.CaseNumber \o "] " \o row.Subject
                             \o " (" \o row.Status \o ")")))))

tool_get_case_articles(s, env, arguments) ==
    Bind(Get(arguments, "case_number", None), LAMBDA case_number :
    Bind(get_case(s, env, case_number), LAMBDA k :
    Bind(get_case_articles(k, env, k.ret.Id), LAMBDA a :
        IF k.raised THEN Propagated(k)
        ELSE IF k.ret = NoneRec THEN TextResult(k, CaseNotFound(case_number))
        ELSE IF a.ret = << >>
        THEN TextResult(a, "No knowledge articles linked to case "
                           \o Str(case_number) \o ".")
        ELSE Lines(a, <<"Knowledge Articles for " \o Str(case_number) \o ":", "">>
                      \o MapLines(a.ret, LAMBDA article :
                             "- " \o article.KnowledgeArticle.Title
                             \o " (" \o article.KnowledgeArticle.UrlName \o ")")))))

Rule == "=================================================="

AnalysisRelatedLine(r) ==
    "  [" \o r.CaseNumber \o "] " \o r.Subject \o " (" \o r.Status \o ")"

FollowUpDays == 7
PatternRelated == 2
AnalysisShownChanges == 5
AnalysisShownComments == 3
AnalysisShownRelated == 3

suggested_actions(data) ==
    Bind(data.technical_summary.closure_readiness, LAMBDA readiness :
    Bind(data.depth = "full", LAMBDA full :
    Bind(IF full THEN data.metrics.days_since_update ELSE 0, LAMBDA days :
    Bind(IF full THEN data.metrics.related_cases_count ELSE 0, LAMBDA related :
        (IF readiness = "ready"
         THEN <<"  [HIGH] close_case: Fix implemented and validated",
                "  [MEDIUM] create_kba: Convert to knowledge article">>
         ELSE IF readiness = "pending_validation"
         THEN <<"  [HIGH] run_validation: Complete validation testing",
                "  [MEDIUM] contact_customer: Confirm fix works">>
         ELSE <<"  [HIGH] investigate: Case needs attention">>)
        \o (IF days # NoDays /\ days # 0 /\ days > FollowUpDays
            THEN <<"  [HIGH] follow_up: No activity for " \o ToString(days) \o " days">>
            ELSE << >>)
        \o (IF related > PatternRelated
            THEN <<"  [MEDIUM] check_patterns: Multiple similar cases exist">>
            ELSE << >>)))))

tool_analyze_case(s, env, arguments) ==
    Bind(Get(arguments, "case_number", None), LAMBDA case_number :
    Bind(Get(arguments, "depth", "full"), LAMBDA depth :
    Bind(get_comprehensive_case_data(s, env, case_number, depth), LAMBDA d :
    Bind(d.ret, LAMBDA data :
    Bind(data.case_info, LAMBDA info :
    Bind(data.technical_summary, LAMBDA tech :
    Bind(data.depth = "full", LAMBDA full :
        IF d.raised THEN Propagated(d)
        ELSE IF data = NoneRec THEN TextResult(d, CaseNotFound(case_number))
        ELSE Lines(d,
               <<Rule, "CASE ANALYSIS: " \o info.CaseNumber, Rule, "",
                 "CASE SUMMARY",
                 "  Subject: " \o Str(info.Subject),
                 "  Status: " \o Str(info.Status),
                 "  Priority: " \o Str(info.Priority),
                 "  Created: " \o Str(info.CreatedDate),
                 "  Last Updated: " \o Str(info.LastModifiedDate),
                 "  Contact: " \o OrText(info.ContactName, "N/A"),
                 "",
                 "TECHNICAL STATUS",
                 "  Fix Status: " \o OrText(tech.fix_status, "Not set"),
                 "  Validation Status: " \o OrText(tech.validation_status, "Not set"),
                 "  Closure Readiness: " \o tech.closure_readiness,
                 "",
                 "METRICS",
                 "  Days Since Update: "
                    \o (IF ~full THEN "N/A"
                        ELSE IF data.metrics.days_since_update = NoDays THEN "None"
                        ELSE ToString(data.metrics.days_since_update)),
                 "  Total Comments: " \o ToString(data.metrics.total_comments),
                 "  Related Cases: "
                    \o (IF full THEN ToString(data.metrics.related_cases_count) ELSE "0"),
                 "  Knowledge Articles: "
                    \o (IF full THEN ToString(data.metrics.articles_count) ELSE "0"),
                 "">>
               \o (IF full /\ data.risk_factors # << >>
                   THEN <<"RISK FACTORS">>
                        \o [i \in 1..Len(data.risk_factors) |-> "  " \o data.risk_factors[i]]
                        \o <<"">>
                   ELSE << >>)
               \o <<"DESCRIPTION", OrText(info.Description, "(No description)"), "">>
               \o (IF depth = "full" /\ full /\ data.history # << >>
                   THEN <<"RECENT CHANGES">>
                        \o MapLines(Take(data.history, AnalysisShownChanges),
                                    LAMBDA row : "  [" \o RowDate(row) \o "] Status -> Working")
                        \o <<"">>
                   ELSE << >>)
               \o (IF depth = "full" /\ full /\ data.recent_comments # << >>
                   THEN <<"RECENT COMMENTS">>
                        \o MapLines(Take(data.recent_comments, AnalysisShownComments),
                                    LAMBDA row : "  Agent: comment " \o ToString(row.no))
                        \o <<"">>
                   ELSE << >>)
               \o (IF depth = "full" /\ full /\ data.related_cases # << >>
                   THEN <<"RELATED CASES">>
                        \o MapLines(Take(data.related_cases, AnalysisShownRelated),
                                    AnalysisRelatedLine)
                        \o <<"">>
                   ELSE << >>)
               \o <<"SUGGESTED ACTIONS">>
               \o suggested_actions(data)))))))))

FollowUpShownChanges == 3

tool_follow_up_case(s, env, arguments) ==
    Bind(Get(arguments, "case_number", None), LAMBDA case_number :
    Bind(Get(arguments, "customer_question", ""), LAMBDA customer_question :
    Bind(get_comprehensive_case_data(s, env, case_number, "full"), LAMBDA d :
    Bind(d.ret, LAMBDA data :
    Bind(data.case_info, LAMBDA info :
    Bind(data.technical_summary, LAMBDA tech :
    Bind(tech.closure_readiness, LAMBDA readiness :
    Bind("----------------------------------------", LAMBDA dashes :
        IF d.raised THEN Propagated(d)
        ELSE IF data = NoneRec THEN TextResult(d, CaseNotFound(case_number))
        ELSE Lines(d,
               <<Rule, "FOLLOW-UP RESPONSE: " \o info.CaseNumber, Rule, "",
                 "Customer Question: " \o Str(customer_question),
                 "",
                 "CURRENT STATUS",
                 "  Case Status: " \o Str(info.Status),
                 "  Fix Status: " \o OrText(tech.fix_status, "In Progress"),
                 "  Validation: " \o OrText(tech.validation_status, "Pending"),
                 "",
                 "WHAT HAS BEEN DONE">>
               \o (IF tech.fix_status = "Implemented"
                   THEN <<"  A fix has been implemented by the engineering team">>
                   ELSE << >>)
               \o (IF tech.validation_status = "Completed"
                   THEN <<"  Validation/testing has been completed successfully">>
                   ELSE IF Truthy(tech.validation_status)
                   THEN <<"  Validation is currently: " \o tech.validation_status>>
                   ELSE << >>)
               \o (IF data.history # << >>
                   THEN <<"  Recent changes:">>
                        \o MapLines(Take(data.history, FollowUpShownChanges),
                                    LAMBDA row : "    - [" \o RowDate(row)
                                                 \o "] Status updated to 'Working'")
                   ELSE << >>)
               \o <<"", "SUGGESTED RESPONSE TO CUSTOMER", dashes>>
               \o (IF readiness = "ready"
                   THEN <<"The issue has been resolved. Our team has:",
                          "  1. Implemented the necessary fix",
                          "  2. Completed validation testing",
                          "",
                          "The case is ready for closure. Please confirm if the issue",
                          "is resolved on your end, and we can close this case.">>
                   ELSE IF readiness = "pending_validation"
                   THEN <<"We have implemented a fix for this issue. Our team is",
                          "currently completing the validation/testing phase.",
                          "",
                          "Once validation is complete, we will notify you and",
                          "coordinate to confirm the fix resolves your issue.">>
                   ELSE <<"Your case is currently being actively worked on.",
                          "Current status: " \o Str(info.Status),
                          "",
                          "Our team is investigating the issue. We will provide",
                          "updates as we make progress.">>)
               \o <<dashes, "", "SUGGESTED NEXT ACTIONS">>
               \o (IF readiness = "ready"
                   THEN <<"  [HIGH] Contact customer to confirm resolution",
                          "  [MEDIUM] Prepare case for closure",
                          "  [LOW] Consider creating Knowledge Article">>
                   ELSE IF readiness = "pending_validation"
                   THEN <<"  [HIGH] Complete validation testing",
                          "  [MEDIUM] Update customer on timeline">>
                   ELSE <<"  [HIGH] Continue investigation",
                          "  [MEDIUM] Provide status update to customer">>))))))))))

\* priority_indicators, in the dictionary's order
priority_indicators ==
    <<[priority |-> "critical",
       keywords |-> <<"critical", "urgent", "down", "outage", "production", "blocker">>],
      [priority |-> "high",
       keywords |-> <<"high", "important", "asap", "deadline", "customer escalation">>],
      [priority |-> "medium",
       keywords |-> <<"issue", "problem", "bug", "error">>],
      [priority |-> "low",
       keywords |-> <<"question", "inquiry", "enhancement", "feature request">>]>>

MatchedKeywords(group, desc_lower, subject_lower) ==
    SelectSeq(group.keywords,
              LAMBDA kw : Contains(desc_lower, kw) \/ Contains(subject_lower, kw))

RECURSIVE FirstMatchingGroup(_, _, _)
FirstMatchingGroup(desc_lower, subject_lower, i) ==
    IF i > Len(priority_indicators) THEN 0
    ELSE IF MatchedKeywords(priority_indicators[i], desc_lower, subject_lower) # << >>
    THEN i
    ELSE FirstMatchingGroup(desc_lower, subject_lower, i + 1)

ReasonKeywords == 2

\* faulty variant: the last group with a keyword in the text decides
recommended_priority_last_match(current, desc_lower, subject_lower) ==
    Bind({ i \in 1..Len(priority_indicators) :
             MatchedKeywords(priority_indicators[i], desc_lower, subject_lower) # << >> },
         LAMBDA hits :
        IF hits = {} THEN Str(current)
        ELSE Bind(CHOOSE i \in hits : \A j \in hits : j <= i, LAMBDA g :
                 (CASE priority_indicators[g].priority = "critical" -> "Critical"
                    [] priority_indicators[g].priority = "high" -> "High"
                    [] priority_indicators[g].priority = "medium" -> "Medium"
                    [] priority_indicators[g].priority = "low" -> "Low")))

recommended_priority(current, desc_lower, subject_lower) ==
    Bind(FirstMatchingGroup(desc_lower, subject_lower, 1), LAMBDA g :
        IF g = 0 THEN Str(current)
        ELSE (CASE priority_indicators[g].priority = "critical" -> "Critical"
                [] priority_indicators[g].priority = "high" -> "High"
                [] priority_indicators[g].priority = "medium" -> "Medium"
                [] priority_indicators[g].priority = "low" -> "Low"))

priority_reason(desc_lower, subject_lower) ==
    Bind(FirstMatchingGroup(desc_lower, subject_lower, 1), LAMBDA g :
        IF g = 0 THEN "Based on current assignment"
        ELSE "Keywords detected: "
             \o Join(Take(MatchedKeywords(priority_indicators[g], desc_lower,
                                          subject_lower), ReasonKeywords), ", "))

assigned_team(desc_lower) ==
    IF Contains(desc_lower, "firmware") \/ Contains(desc_lower, "sdk")
    THEN "  4. Assign to: Firmware/SDK Team"
    ELSE IF Contains(desc_lower, "hardware") \/ Contains(desc_lower, "board")
    THEN "  4. Assign to: Hardware Team"
    ELSE IF Contains(desc_lower, "certification") \/ Contains(desc_lower, "compliance")
    THEN "  4. Assign to: Compliance Team"
    ELSE "  4. Assign to: General Support Queue"

TriageShownRelated == 5

tool_triage_new_case(s, env, arguments) ==
    Bind(Get(arguments, "case_number", None), LAMBDA case_number :
    Bind(get_comprehensive_case_data(s, env, case_number, "full"), LAMBDA d :
    Bind(d.ret, LAMBDA data :
    Bind(data.case_info, LAMBDA info :
    Bind(data.related_cases, LAMBDA related :
    Bind(data.knowledge_articles, LAMBDA articles :
    Bind(Lower(OrText(info.Description, "")), LAMBDA desc_lower :
    Bind(Lower(OrText(info.Subject, "")), LAMBDA subject_lower :
    Bind(recommended_priority(info.Priority, desc_lower, subject_lower), LAMBDA recommended :
        IF d.raised THEN Propagated(d)
        ELSE IF data = NoneRec THEN TextResult(d, CaseNotFound(case_number))
        ELSE Lines(d,
               <<Rule, "CASE TRIAGE: " \o info.CaseNumber, Rule, "",
                 "CASE DETAILS",
                 "  Subject: " \o Str(info.Subject),
                 "  Current Priority: " \o Str(info.Priority),
                 "  Status: " \o Str(info.Status),
                 "  Contact: " \o OrText(info.ContactName, "N/A"),
                 "",
                 "DESCRIPTION", OrText(info.Description, "(No description)"), "",
                 "PRIORITY ASSESSMENT",
                 "  Current: " \o Str(info.Priority),
                 "  Recommended: " \o recommended,
                 "  Reason: " \o priority_reason(desc_lower, subject_lower),
                 "">>
               \o (IF related # << >>
                   THEN <<"SIMILAR PAST CASES", "  (Review these for potential solutions)">>
                        \o MapLines(Take(related, TriageShownRelated), AnalysisRelatedLine)
                        \o <<"">>
                   ELSE <<"No similar cases found in history", "">>)
               \o (IF articles # << >>
                   THEN <<"RELEVANT KNOWLEDGE ARTICLES">>
                        \o MapLines(articles, LAMBDA article :
                               "  " \o article.KnowledgeArticle.Title)
                        \o <<"">>
                   ELSE << >>)
               \o <<"TRIAGE RECOMMENDATIONS", "  1. Set priority to: " \o recommended>>
               \o (IF related # << >>
                   THEN <<"  2. Review " \o ToString(Len(related))
                          \o " similar cases for patterns/solutions">>
                   ELSE << >>)
               \o (IF articles # << >>
                   THEN <<"  3. Check " \o ToString(Len(articles))
                          \o " knowledge articles before investigation">>
                   ELSE << >>)
               \o <<assigned_team(desc_lower)>>))))))))))

(***************************************************************************)
(* handle_request: case-number extraction, intent classification, routing  *)
(***************************************************************************)

CaseNumberDigits == 8

DigitsAt(t, i) ==
    /\ i + CaseNumberDigits - 1 <= Len(t)
    /\ \A j \in i..(i + CaseNumberDigits - 1) : CharAt(t, j) \in Digits

RECURSIVE SkipWhitespace(_, _)
SkipWhitespace(t, i) ==
    IF i <= Len(t) /\ CharAt(t, i) \in Whitespace THEN SkipWhitespace(t, i + 1) ELSE i

\* (?:case\s+)?(\d{8}) tried at position i: group 1, or None
MatchAt(t, i) ==
    Bind(SkipWhitespace(t, i + Len("case")), LAMBDA j :
        IF StartsAt(t, "case", i) /\ j > i + Len("case") /\ DigitsAt(t, j)
        THEN SubSeq(t, j, j + CaseNumberDigits - 1)
        ELSE IF DigitsAt(t, i) THEN SubSeq(t, i, i + CaseNumberDigits - 1)
        ELSE None)

\* re.search(r'(?:case\s+)?(\d{8})', request): the leftmost match
extract_case_number(request) ==
    IF \A i \in 1..Len(request) : MatchAt(request, i) = None THEN None
    ELSE MatchAt(request,
                 CHOOSE i \in 1..Len(request) :
                    /\ MatchAt(request, i) # None
                    /\ \A j \in 1..(i - 1) : MatchAt(request, j) = None)

intent_keywords ==
    <<[intent |-> "status_check",
       words |-> <<"status", "update", "progress", "what's happening">>],
      [intent |-> "follow_up",
       words |-> <<"customer asking", "follow up", "follow-up", "what has been done",
                   "what's been done">>],
      [intent |-> "search",
       words |-> <<"find", "search", "look for", "cases about">>],
      [intent |-> "closure_check",
       words |-> <<"ready to close", "can we close", "closure">>],
      [intent |-> "triage",
       words |-> <<"triage", "new case", "prioritize">>],
      [intent |-> "kba_check",
       words |-> <<"kba", "knowledge article", "document">>],
      [intent |-> "analyze",
       words |-> <<"analyze", "analysis", "details", "tell me about">>]>>

\* faulty variant: the last category with a keyword in the text wins
classify_intent_last_match(request) ==
    IF \A i \in 1..Len(intent_keywords) :
          \A w \in 1..Len(intent_keywords[i].words) :
             ~Contains(request, intent_keywords[i].words[w])
    THEN "general"
    ELSE intent_keywords[
             CHOOSE i \in 1..Len(intent_keywords) :
                /\ \E w \in 1..Len(intent_keywords[i].words) :
                      Contains(request, intent_keywords[i].words[w])
                /\ \A j \in (i + 1)..Len(intent_keywords) :
                      \A w \in 1..Len(intent_keywords[j].words) :
                         ~Contains(request, intent_keywords[j].words[w])].intent

\* the if/elif chain over the keyword lists
classify_intent(request) ==
    IF \A i \in 1..Len(intent_keywords) :
          \A w \in 1..Len(intent_keywords[i].words) :
             ~Contains(request, intent_keywords[i].words[w])
    THEN "general"
    ELSE intent_keywords[
             CHOOSE i \in 1..Len(intent_keywords) :
                /\ \E w \in 1..Len(intent_keywords[i].words) :
                      Contains(request, intent_keywords[i].words[w])
                /\ \A j \in 1..(i - 1) :
                      \A w \in 1..Len(intent_keywords[j].words) :
                         ~Contains(request, intent_keywords[j].words[w])].intent

search_terms(request) ==
    Strip(Replace(Replace(Replace(Replace(request, "find", ""), "search", ""),
                          "cases about", ""), "look for", ""))

\* faulty variant: a status check is answered with the case summary
route_status_to_summary(intent, case_number, request) ==
    CASE intent = "status_check" ->
            [name |-> IF Truthy(case_number) THEN "get_case_summary" ELSE "",
             arguments |-> [case_number |-> case_number]]
      [] intent = "analyze" ->
            [name |-> IF Truthy(case_number) THEN "analyze_case" ELSE "",
             arguments |-> [case_number |-> case_number, depth |-> "full"]]
      [] intent = "follow_up" ->
            [name |-> IF Truthy(case_number) THEN "follow_up_case" ELSE "",
             arguments |-> [case_number |-> case_number, customer_question |-> request]]
      [] intent = "search" ->
            [name |-> "search_cases",
             arguments |-> [query_string |-> search_terms(request)]]
      [] intent = "closure_check" ->
            [name |-> IF Truthy(case_number) THEN "get_case_summary" ELSE "",
             arguments |-> [case_number |-> case_number]]
      [] intent = "triage" ->
            [name |-> IF Truthy(case_number) THEN "triage_new_case" ELSE "",
             arguments |-> [case_number |-> case_number]]
      [] intent = "kba_check" ->
            [name |-> IF Truthy(case_number) THEN "suggest_knowledge_article" ELSE "",
             arguments |-> [case_number |-> case_number]]
      [] OTHER -> [name |-> "", arguments |-> [case_number |-> case_number]]

\* faulty variant: a search is handed to handle_request again, keywords removed
route_search_to_handler(intent, case_number, request) ==
    CASE intent \in {"status_check", "analyze"} ->
            [name |-> IF Truthy(case_number) THEN "analyze_case" ELSE "",
             arguments |-> [case_number |-> case_number, depth |-> "full"]]
      [] intent = "follow_up" ->
            [name |-> IF Truthy(case_number) THEN "follow_up_case" ELSE "",
             arguments |-> [case_number |-> case_number, customer_question |-> request]]
      [] intent = "search" ->
            [name |-> "handle_request",
             arguments |-> [request |-> search_terms(request)]]
      [] intent = "closure_check" ->
            [name |-> IF Truthy(case_number) THEN "get_case_summary" ELSE "",
             arguments |-> [case_number |-> case_number]]
      [] intent = "triage" ->
            [name |-> IF Truthy(case_number) THEN "triage_new_case" ELSE "",
             arguments |-> [case_number |-> case_number]]
      [] intent = "kba_check" ->
            [name |-> IF Truthy(case_number) THEN "suggest_knowledge_article" ELSE "",
             arguments |-> [case_number |-> case_number]]
      [] OTHER -> [name |-> "", arguments |-> [case_number |-> case_number]]

\* the nested invocation an intent routes to; no tool when name is ""
route(intent, case_number, request) ==
    CASE intent \in {"status_check", "analyze"} ->
            [name |-> IF Truthy(case_number) THEN "analyze_case" ELSE "",
             arguments |-> [case_number |-> case_number, depth |-> "full"]]
      [] intent = "follow_up" ->
            [name |-> IF Truthy(case_number) THEN "follow_up_case" ELSE "",
             arguments |-> [case_number |-> case_number, customer_question |-> request]]
      [] intent = "search" ->
            [name |-> "search_cases",
             arguments |-> [query_string |-> search_terms(request)]]
      [] intent = "closure_check" ->
            [name |-> IF Truthy(case_number) THEN "get_case_summary" ELSE "",
             arguments |-> [case_number |-> case_number]]
      [] intent = "triage" ->
            [name |-> IF Truthy(case_number) THEN "triage_new_case" ELSE "",
             arguments |-> [case_number |-> case_number]]
      [] intent = "kba_check" ->
            [name |-> IF Truthy(case_number) THEN "suggest_knowledge_article" ELSE "",
             arguments |-> [case_number |-> case_number]]
      [] OTHER -> [name |-> "", arguments |-> [case_number |-> case_number]]

unrouted_lines(intent) ==
    CASE intent \in {"status_check", "analyze"} ->
            <<"Please specify a case number for status check.">>
      [] intent = "follow_up" -> <<"Please specify a case number for follow-up.">>
      [] intent = "closure_check" ->
            <<"Please specify a case number for closure check.">>
      [] intent = "triage" -> <<"Please specify a case number for triage.">>
      [] intent = "kba_check" -> <<"Please specify a case number for KBA check.">>
      [] OTHER ->
            <<"I couldn't determine a specific intent.",
              "",
              "Available actions:",
              "  'status of case XXXXXXXX' - Get case status",
              "  'customer asking about case XXXXXXXX' - Generate follow-up response",
              "  'find cases about [topic]' - Search for cases",
              "  'ready to close case XXXXXXXX?' - Check closure readiness",
              "  'triage case XXXXXXXX' - Triage a new case",
              "  'create KBA for case XXXXXXXX' - Check KBA eligibility">>

\* the case number handle_request works with: the context's, else the extracted
request_case_number(arguments) ==
    Bind(Lower(Get(arguments, "request", "")), LAMBDA request :
    Bind(IF "context" \in DOMAIN arguments
         THEN Get(arguments.context, "case_number", None)
         ELSE None, LAMBDA given :
        IF Truthy(given) THEN given ELSE extract_case_number(request)))

RECURSIVE call_tool(_, _, _, _)

\* faulty variant: the handler connects before it answers by itself
tool_handle_request_connected(s, env, arguments) ==
    Bind(Lower(Get(arguments, "request", "")), LAMBDA request :
    Bind(request_case_number(arguments), LAMBDA case_number :
    Bind(classify_intent(request), LAMBDA intent :
    Bind(route(intent, case_number, request), LAMBDA to :
    Bind(call_tool(to.name, to.arguments, s, env), LAMBDA r :
        IF to.name # ""
        THEN [r EXCEPT !.inner = <<to>> \o @]
        ELSE IF connect(s, env).raised THEN Propagated(connect(s, env))
        ELSE Lines(connect(s, env),
               <<Rule, "INTELLIGENT REQUEST HANDLER", Rule, "",
                 "Request: " \o Get(arguments, "request", ""),
                 "Detected Case: " \o OrText(case_number, "None"),
                 "",
                 "Detected Intent: " \o intent,
                 "">>
               \o unrouted_lines(intent)))))))

tool_handle_request(s, env, arguments) ==
    Bind(Lower(Get(arguments, "request", "")), LAMBDA request :
    Bind(request_case_number(arguments), LAMBDA case_number :
    Bind(classify_intent(request), LAMBDA intent :
    Bind(route(intent, case_number, request), LAMBDA to :
    Bind(call_tool(to.name, to.arguments, s, env), LAMBDA r :
        IF to.name # ""
        THEN [r EXCEPT !.inner = <<to>> \o @]
        ELSE Lines(s,
               <<Rule, "INTELLIGENT REQUEST HANDLER", Rule, "",
                 "Request: " \o Get(arguments, "request", ""),
                 "Detected Case: " \o OrText(case_number, "None"),
                 "",
                 "Detected Intent: " \o intent,
                 "">>
               \o unrouted_lines(intent)))))))

(***************************************************************************)
(* Schema, email, write and knowledge-article handlers; the dispatch       *)
(***************************************************************************)

BoolText(b) == IF b THEN "True" ELSE "False"

tool_describe_sobject(s, env, arguments) ==
    Bind(Get(arguments, "object_name", None), LAMBDA object_name :
    Bind(describe_sobject(s, env, object_name), LAMBDA d :
        IF ~Truthy(object_name) THEN TextResult(s, "Error: object_name is required.")
        ELSE IF d.raised THEN Propagated(d)
        ELSE IF "error" \in DOMAIN d.ret
        THEN TextResult(d, "Error describing " \o object_name \o ": " \o d.ret.error)
        ELSE Lines(d,
               <<"=== " \o d.ret.label \o " (" \o object_name \o ") Schema ===",
                 "Updateable: " \o BoolText(d.ret.updateable)
                    \o " | Createable: " \o BoolText(d.ret.createable),
                 "Total Fields: " \o ToString(d.ret.field_count),
                 "",
                 "--- Updateable Fields (most relevant for updates) ---",
                 "",
                 "Use exact api_value strings when calling update_case.">>)))

tool_describe_workflow_objects(s, env, arguments) ==
    Bind(describe_workflow_objects(s, env), LAMBDA d :
        IF d.raised THEN Propagated(d)
        ELSE Lines(d, <<"=== Support Case Workflow Objects ===", "">>
                      \o MapLines(d.ret, LAMBDA object :
                             IF "error" \in DOMAIN object.data
                             THEN object.name \o ": " \o object.data.error
                             ELSE object.name \o ": "
                                  \o ToString(object.data.field_count) \o " fields ("
                                  \o ToString(object.data.field_count) \o " updateable)")
                      \o <<"", "Use describe_sobject for detailed field info on any object.">>))

tool_get_case_emails(s, env, arguments) ==
    Bind(Get(arguments, "case_number", None), LAMBDA case_number :
    Bind(get_case(s, env, case_number), LAMBDA k :
    Bind(get_case_emails(k, env, k.ret.Id), LAMBDA e :
        IF k.raised THEN Propagated(k)
        ELSE IF k.ret = NoneRec THEN TextResult(k, CaseNotFound(case_number))
        ELSE IF e.ret = << >>
        THEN TextResult(e, "No emails found for case " \o Str(case_number) \o ".")
        ELSE Lines(e, <<"=== Email Thread for Case " \o Str(case_number) \o " ===",
                        "Total: " \o ToString(Len(e.ret)) \o " emails", "">>
                      \o FlatMapLines(e.ret, LAMBDA row :
                           <<"[" \o ToString(row.no) \o "] [INBOUND] " \o RowDate(row),
                             "    From: customer@example.com",
                             "    To: support@example.com",
                             "    Subject: message " \o ToString(row.no),
                             "    Body: body " \o ToString(row.no),
                             "">>, 1)))))

tool_draft_case_email(s, env, arguments) ==
    Bind(Get(arguments, "case_number", None), LAMBDA case_number :
    Bind(Get(arguments, "message", None), LAMBDA message :
    Bind(draft_case_email(s, env, case_number, message), LAMBDA d :
        IF ~Truthy(message) THEN TextResult(s, "Error: message is required.")
        ELSE IF d.raised THEN Propagated(d)
        ELSE IF ~d.ret.success THEN TextResult(d, "Error: " \o d.ret.error)
        ELSE Lines(d,
               <<"=== DRAFT EMAIL (Review Before Sending) ===",
                 "",
                 "To: " \o d.ret.to_name \o " <" \o d.ret.to_email \o ">",
                 "Subject: " \o d.ret.subject,
                 "",
                 "--- Body ---",
                 d.ret.body,
                 "--- End ---",
                 "",
                 "This is a DRAFT. Call send_case_email to send this email.",
                 "   Or modify the message and call draft_case_email again.">>))))

tool_send_case_email(s, env, arguments) ==
    Bind(Get(arguments, "case_number", None), LAMBDA case_number :
    Bind(Get(arguments, "subject", None), LAMBDA subject :
    Bind(Get(arguments, "body", None), LAMBDA body :
    Bind(send_case_email(s, env, case_number, subject, body), LAMBDA d :
        IF ~(Truthy(subject) /\ Truthy(body))
        THEN TextResult(s, "Error: subject and body are required.")
        ELSE IF d.raised THEN Propagated(d)
        ELSE IF ~d.ret.success THEN TextResult(d, "Error sending email: " \o d.ret.error)
        ELSE Lines(d,
               <<"EMAIL SENT SUCCESSFULLY",
                 "",
                 "Case: " \o Str(d.ret.case_number),
                 "Sent to: " \o d.ret.sent_to,
                 "Subject: " \o d.ret.subject,
                 "",
                 "The email has been logged to the case automatically.",
                 "",
                 "SUGGESTED: Add a case comment to log this action.">>)))))

\* the fields argument is a dictionary or absent; other types are not drawn
FieldNames(fields) == CHOOSE q \in [1..Cardinality(DOMAIN fields) -> DOMAIN fields] :
                          \A i, j \in DOMAIN q : i # j => q[i] # q[j]

\* call_tool "update_case" once sf_client.update_case has returned d
update_case_report(d, fields) ==
    IF d.raised THEN Propagated(d)
    ELSE IF ~d.ret.success THEN TextResult(d, "Error updating case: " \o d.ret.error)
    ELSE Lines(d,
           <<"CASE UPDATED SUCCESSFULLY",
             "",
             "Case: " \o Str(d.ret.case_number),
             "Updated fields:">>
           \o [i \in 1..Cardinality(DOMAIN fields) |->
                  "  " \o FieldNames(fields)[i] \o ": "
                  \o Str(d.ret.new_values[FieldNames(fields)[i]])]
           \o <<"", "SUGGESTED: Add a comment to document this change.">>)

tool_update_case(s, env, arguments) ==
    Bind(Get(arguments, "case_number", None), LAMBDA case_number :
    Bind(arguments.fields, LAMBDA fields :
        IF ~("fields" \in DOMAIN arguments) \/ DOMAIN fields = {}
        THEN TextResult(s, "Error: fields must be a dictionary of field names and values.")
        ELSE update_case_report(update_case(s, env, case_number, fields), fields)))

tool_add_case_comment(s, env, arguments) ==
    Bind(Get(arguments, "case_number", None), LAMBDA case_number :
    Bind(Get(arguments, "comment", None), LAMBDA comment :
    Bind(Get(arguments, "is_public", FALSE), LAMBDA is_public :
    Bind(add_case_comment(s, env, case_number, comment, is_public), LAMBDA d :
        IF ~Truthy(comment) THEN TextResult(s, "Error: comment is required.")
        ELSE IF d.raised THEN Propagated(d)
        ELSE IF ~d.ret.success THEN TextResult(d, "Error adding comment: " \o d.ret.error)
        ELSE Lines(d,
               <<"COMMENT ADDED",
                 "",
                 "Case: " \o Str(d.ret.case_number),
                 "Visibility: " \o (IF is_public THEN "Public (visible to customer)"
                                    ELSE "Internal (team only)"),
                 "Comment ID: " \o d.ret.comment_id>>)))))

tool_create_knowledge_article(s, env, arguments) ==
    Bind(Get(arguments, "title", None), LAMBDA title :
    Bind(Get(arguments, "summary", None), LAMBDA summary :
    Bind(Get(arguments, "content", None), LAMBDA content :
    Bind(Get(arguments, "case_number", None), LAMBDA case_number :
    Bind(create_knowledge_article(s, env, title, summary, content, None, case_number), LAMBDA d :
        IF ~(Truthy(title) /\ Truthy(summary) /\ Truthy(content))
        THEN TextResult(s, "Error: title, summary, and content are required.")
        ELSE IF d.raised THEN Propagated(d)
        ELSE IF ~d.ret.success
        THEN TextResult(d, "Error creating article: " \o d.ret.error)
        ELSE Lines(d,
               <<"KNOWLEDGE ARTICLE CREATED",
                 "",
                 "Title: " \o d.ret.title,
                 "Article ID: " \o d.ret.article_id,
                 "URL Name: " \o d.ret.url_name,
                 "Status: " \o d.ret.status>>
               \o (IF Truthy(d.ret.linked_case)
                   THEN <<"Linked to case: " \o d.ret.linked_case>> ELSE << >>)
               \o <<"", "Note: Article is in Draft status. Publish it in Salesforce to make it available.">>))))))

\* faulty variant: an unknown name is answered with a text
ToolNotFoundAsText(s, name) == TextResult(s, "Tool " \o name \o " not found")

\* raise ValueError(f"Tool {name} not found")
ToolNotFound(s, name) == Propagated(s)

call_tool(name, arguments, s, env) ==
    CASE name = "search" -> tool_search(s, env, arguments)
      [] name = "fetch" -> tool_fetch(s, env, arguments)
      [] name = "get_case_details" -> tool_get_case_details(s, env, arguments)
      [] name = "search_cases" -> tool_search_cases(s, env, arguments)
      [] name = "get_case_history" -> tool_get_case_history(s, env, arguments)
      [] name = "get_case_timeline" -> tool_get_case_timeline(s, env, arguments)
      [] name = "get_case_summary" -> tool_get_case_summary(s, env, arguments)
      [] name = "suggest_knowledge_article" ->
            tool_suggest_knowledge_article(s, env, arguments)
      [] name = "get_related_cases" -> tool_get_related_cases(s, env, arguments)
      [] name = "get_case_articles" -> tool_get_case_articles(s, env, arguments)
      [] name = "analyze_case" -> tool_analyze_case(s, env, arguments)
      [] name = "follow_up_case" -> tool_follow_up_case(s, env, arguments)
      [] name = "triage_new_case" -> tool_triage_new_case(s, env, arguments)
      [] name = "handle_request" -> tool_handle_request(s, env, arguments)
      [] name = "describe_sobject" -> tool_describe_sobject(s, env, arguments)
      [] name = "describe_workflow_objects" ->
            tool_describe_workflow_objects(s, env, arguments)
      [] name = "get_case_emails" -> tool_get_case_emails(s, env, arguments)
      [] name = "draft_case_email" -> tool_draft_case_email(s, env, arguments)
      [] name = "send_case_email" -> tool_send_case_email(s, env, arguments)
      [] name = "update_case" -> tool_update_case(s, env, arguments)
      [] name = "add_case_comment" -> tool_add_case_comment(s, env, arguments)
      [] name = "create_knowledge_article" ->
            tool_create_knowledge_article(s, env, arguments)
      [] OTHER -> ToolNotFound(s, name)

\* faulty variant: a tool is advertised that call_tool does not handle
list_tools_with_unhandled ==
    <<[name |-> "search", required |-> {"query"}],
      [name |-> "fetch", required |-> {"id"}],
      [name |-> "get_case_details", required |-> {"case_number"}],
      [name |-> "search_cases", required |-> {"query_string"}],
      [name |-> "get_case_history", required |-> {"case_number"}],
      [name |-> "get_case_timeline", required |-> {"case_number"}],
      [name |-> "get_related_cases", required |-> {"case_number"}],
      [name |-> "get_case_articles", required |-> {"case_number"}],
      [name |-> "get_case_summary", required |-> {"case_number"}],
      [name |-> "suggest_knowledge_article", required |-> {"case_number"}],
      [name |-> "analyze_case", required |-> {"case_number"}],
      [name |-> "follow_up_case", required |-> {"case_number", "customer_question"}],
      [name |-> "triage_new_case", required |-> {"case_number"}],
      [name |-> "handle_request", required |-> {"request"}],
      [name |-> "describe_sobject", required |-> {"object_name"}],
      [name |-> "describe_workflow_objects", required |-> {}],
      [name |-> "get_case_emails", required |-> {"case_number"}],
      [name |-> "draft_case_email", required |-> {"case_number", "message"}],
      [name |-> "send_case_email", required |-> {"case_number", "subject", "body"}],
      [name |-> "update_case", required |-> {"case_number", "fields"}],
      [name |-> "add_case_comment", required |-> {"case_number", "comment"}],
      [name |-> "create_knowledge_article", required |-> {"title", "summary", "content"}],
      [name |-> "delete_case", required |-> {"case_number"}]>>

\* list_tools: each tool's name with the required list of its inputSchema
list_tools ==
    <<[name |-> "search", required |-> {"query"}],
      [name |-> "fetch", required |-> {"id"}],
      [name |-> "get_case_details", required |-> {"case_number"}],
      [name |-> "search_cases", required |-> {"query_string"}],
      [name |-> "get_case_history", required |-> {"case_number"}],
      [name |-> "get_case_timeline", required |-> {"case_number"}],
      [name |-> "get_related_cases", required |-> {"case_number"}],
      [name |-> "get_case_articles", required |-> {"case_number"}],
      [name |-> "get_case_summary", required |-> {"case_number"}],
      [name |-> "suggest_knowledge_article", required |-> {"case_number"}],
      [name |-> "analyze_case", required |-> {"case_number"}],
      [name |-> "follow_up_case", required |-> {"case_number", "customer_question"}],
      [name |-> "triage_new_case", required |-> {"case_number"}],
      [name |-> "handle_request", required |-> {"request"}],
      [name |-> "describe_sobject", required |-> {"object_name"}],
      [name |-> "describe_workflow_objects", required |-> {}],
      [name |-> "get_case_emails", required |-> {"case_number"}],
      [name |-> "draft_case_email", required |-> {"case_number", "message"}],
      [name |-> "send_case_email", required |-> {"case_number", "subject", "body"}],
      [name |-> "update_case", required |-> {"case_number", "fields"}],
      [name |-> "add_case_comment", required |-> {"case_number", "comment"}],
      [name |-> "create_knowledge_article", required |-> {"title", "summary", "content"}]>>

ToolNames == { list_tools[i].name : i \in 1..Len(list_tools) }

Required(name) ==
    IF name \in ToolNames
    THEN (CHOOSE t \in ({ list_tools[i] : i \in 1..Len(list_tools) }) : t.name = name).required
    ELSE {}

(***************************************************************************)
(* The server as a state machine: the transport hands call_tool a name and *)
(* an argument map (Invoke) and takes the result or the exception (Return) *)
(***************************************************************************)

MaxFailures == 1
MaxRows == 1
MaxWrites == 1

ExistingCase == "00335943"
AbsentCase == "00335944"
ExistingId == "500A1"

CaseNumbers == {ExistingCase, AbsentCase}

Idle ==
    [name |-> "", arguments |-> [k \in {} |-> None], kind |-> "idle",
     content |-> << >>, log |-> << >>, inner |-> << >>]

NoArgs == [k \in {} |-> None]

\* no update_case is between its two upstream calls; writes counts the
\* changes other users of the CRM have made
NoPending ==
    [stage |-> "none", arguments |-> NoArgs, env |-> NoneRec, k |-> NoneRec,
     raced |-> FALSE, writes |-> 0]

InitServer(fix_status, validation_status, priority) ==
    /\ sf = FALSE
    /\ cases = [n \in {ExistingCase} |->
                   [Id |-> ExistingId,
                    CaseNumber |-> ExistingCase,
                    Subject |-> "Printer firmware outage",
                    Description |->
                        "Firmware update reports an error on the production board",
                    Status |-> "Working",
                    Priority |-> priority,
                    ContactName |-> "Pat Lee",
                    ContactEmail |-> "pat.lee@example.com",
                    CreatedDate |-> "2024-01-01T09:00:00.000+0000",
                    LastModifiedDate |-> "2024-01-05T09:00:00.000+0000",
                    Fix_Status__c |-> fix_status,
                    Validation_Status__c |-> validation_status]]
    /\ comments = [i \in {ExistingId} |-> 0]
    /\ kav = << >>
    /\ caseArticle = {}
    /\ emails = 0
    /\ call = Idle
    /\ pending = NoPending

NotBuilt == [fn |-> "none", escaped |-> "", query |-> ""]

\* what the CRM answers during one invocation
Quiet ==
    [fail |-> {}, history |-> 0, feed |-> 0, related |-> 0, sosl |-> 0,
     fuzzy |-> 0, emails |-> 0, days |-> 3]

FailSets(ops) ==
    { f \in SUBSET (ops \cup (IF sf THEN {} ELSE {"login"})) :
          Cardinality(f) <= MaxFailures }

\* environments: calls among ops may fail, child queries hold 0..MaxRows rows
Envs(ops) ==
    { [Quiet EXCEPT !.fail = f, !.history = n, !.feed = n, !.related = n,
                    !.emails = n]
        : f \in FailSets(ops), n \in 0..MaxRows }

SearchEnvs ==
    { [Quiet EXCEPT !.fail = f, !.sosl = a, !.fuzzy = b]
        : f \in FailSets({"search", "query:Fuzzy"}), a \in 0..MaxRows, b \in 0..MaxRows }

\* the call ends: its result is held for the transport, the connection and
\* the CRM keep what the call made of them
Deliver(name, arguments, r) ==
    /\ call' = [name |-> name, arguments |-> arguments,
                kind |-> IF r.raised THEN "raise" ELSE "text",
                content |-> r.content, log |-> r.log, inner |-> r.inner]
    /\ sf' = r.sf
    /\ cases' = r.db.cases
    /\ comments' = r.db.comments
    /\ kav' = r.db.kav
    /\ caseArticle' = r.db.caseArticle
    /\ emails' = r.db.emails

Invoke(name, Args, EnvSet) ==
    /\ call.kind = "idle"
    /\ \E arguments \in Args, env \in EnvSet :
         Deliver(name, arguments,
                 call_tool(name, arguments,
                           [sf |-> sf,
                            db |-> [cases |-> cases, comments |-> comments, kav |-> kav,
                                    caseArticle |-> caseArticle, emails |-> emails],
                            log |-> << >>, raised |-> FALSE, ret |-> NoneRec],
                           env))
    /\ UNCHANGED <<term, built, pending>>

\* records written to the CRM so far
Written == emails + comments[ExistingId] + Len(kav)

\* the transport takes the content list, or the exception, of the finished call
Return ==
    /\ call.kind # "idle"
    /\ call' = Idle
    /\ pending' = [NoPending EXCEPT !.writes = pending.writes]
    /\ UNCHANGED <<sf, cases, comments, kav, caseArticle, emails, term, built>>

Queries == {"printer error", "x", "it's {urgent}", "a PC  error x"}

CaseArgs == {NoArgs} \cup { [case_number |-> n] : n \in CaseNumbers }

SummaryOps ==
    {"query:CaseStatus", "query:CaseHistory", "query:CaseComment", "query:CaseFeed"}
ComprehensiveOps == SummaryOps \cup {"query:Related", "query:CaseArticle"}

Search ==
    Invoke("search", {NoArgs} \cup { [query |-> q] : q \in Queries }, SearchEnvs)

Fetch ==
    Invoke("fetch", {NoArgs} \cup { [id |-> n] : n \in CaseNumbers },
           Envs({"query:Case", "query:CaseComment"}))

GetCaseDetails ==
    Invoke("get_case_details", CaseArgs, Envs({"query:Case", "query:CaseComment"}))

SearchCases ==
    Invoke("search_cases", {NoArgs} \cup { [query_string |-> q] : q \in Queries },
           SearchEnvs)

GetCaseHistory ==
    Invoke("get_case_history", CaseArgs, Envs({"query:Case", "query:CaseHistory"}))

GetCaseTimeline ==
    Invoke("get_case_timeline", CaseArgs, Envs({"query:Case", "query:CaseFeed"}))

GetRelatedCases ==
    Invoke("get_related_cases", CaseArgs, Envs({"query:Case", "query:Related"}))

GetCaseArticles ==
    Invoke("get_case_articles", CaseArgs, Envs({"query:Case", "query:CaseArticle"}))

GetCaseSummary == Invoke("get_case_summary", CaseArgs, Envs(SummaryOps))

SuggestKnowledgeArticle ==
    Invoke("suggest_knowledge_article", CaseArgs, Envs(SummaryOps))

AnalyzeCase ==
    Invoke("analyze_case",
           CaseArgs \cup { [case_number |-> n, depth |-> d] :
                               n \in CaseNumbers, d \in {"quick", "full"} },
           Envs(ComprehensiveOps))

FollowUpCase ==
    Invoke("follow_up_case",
           CaseArgs \cup { [case_number |-> n, customer_question |-> "Any news?"] :
                               n \in CaseNumbers },
           Envs(ComprehensiveOps))

TriageNewCase == Invoke("triage_new_case", CaseArgs, Envs(ComprehensiveOps))

HandleRequest ==
    Invoke("handle_request",
           {NoArgs}
           \cup { [request |-> q] : q \in { "Status of case 00335943",
                                            "what's the progress?",
                                            "find printer error",
                                            "is 00335944 ready to close",
                                            "triage case 00335943",
                                            "KBA for 00335943",
                                            "customer asking about case 00335943",
                                            "analyze order 5551234567 for case 00335943",
                                            "Status? Please follow up",
                                            "follow-up: search again",
                                            "look for closure notes",
                                            "can we close the new case",
                                            "prioritize the KBA",
                                            "document the analysis",
                                            "tell me about it",
                                            "triage and analyze case 00335943",
                                            "hello" } }
           \cup { [request |-> "analyze it", context |-> [case_number |-> n]] :
                      n \in CaseNumbers },
           Envs(ComprehensiveOps \cup {"search", "query:Fuzzy"}))

DescribeSobject ==
    Invoke("describe_sobject",
           {NoArgs} \cup { [object_name |-> o] : o \in {"Case", "Knowledge__kav"} },
           Envs({"describe:Case", "describe:Knowledge__kav"}))

DescribeWorkflowObjects ==
    Invoke("describe_workflow_objects", {NoArgs},
           Envs({"describe:Case", "describe:CaseComment", "describe:EmailMessage",
                 "describe:Knowledge__kav"}))

GetCaseEmails ==
    Invoke("get_case_emails", CaseArgs, Envs({"query:Case", "query:EmailMessage"}))

\* each subset of the keys of a full argument map: the keys left out are absent
Partial(full) == { [k \in ks |-> full[k]] : ks \in SUBSET DOMAIN full }

DraftCaseEmail ==
    Invoke("draft_case_email",
           UNION { Partial([case_number |-> n, message |-> "We are on it."]) :
                       n \in CaseNumbers },
           Envs({"query:CaseContact"}))

SendCaseEmail ==
    /\ Written < MaxWrites
    /\ Invoke("send_case_email",
              UNION { Partial([case_number |-> n, subject |-> "Re: your case",
                               body |-> "We are on it."]) : n \in CaseNumbers },
              Envs({"query:CaseContact", "restful:emailSimple", "create:EmailMessage"}))

UpdateCase ==
    Invoke("update_case",
           CaseArgs \cup { [case_number |-> n, fields |-> f] :
                               n \in CaseNumbers,
                               f \in { NoArgs,
                                       [Status |-> "Closed",
                                        Validation_Status__c |-> "Completed"] } },
           Envs({"query:Case", "update:Case"}))

AddCaseComment ==
    /\ Written < MaxWrites
    /\ Invoke("add_case_comment",
              (UNION { Partial([case_number |-> n, comment |-> "Called the customer."]) :
                           n \in CaseNumbers })
              \cup { [case_number |-> ExistingCase, comment |-> "Fixed.",
                      is_public |-> TRUE] },
              Envs({"query:Case", "create:CaseComment"}))

CreateKnowledgeArticle ==
    /\ Written < MaxWrites
    /\ Invoke("create_knowledge_article",
              UNION { Partial([title |-> "Reset the Printer/Board",
                               summary |-> "How to reset",
                               content |-> "Hold the button.",
                               case_number |-> n]) : n \in CaseNumbers },
              { [Quiet EXCEPT !.fail = f] :
                  f \in SUBSET {"query:Case", "create:Knowledge__kav",
                                "create:KnowledgeArticle", "create:CaseArticle"} })

UnknownTool == Invoke("delete_case", CaseArgs, Envs({}))

Init ==
    /\ InitServer("Implemented", None, "High")
    /\ term = ""
    /\ built = NotBuilt

Next ==
    \/ Search
    \/ Fetch
    \/ GetCaseDetails
    \/ SearchCases
    \/ GetCaseHistory
    \/ GetCaseTimeline
    \/ GetRelatedCases
    \/ GetCaseArticles
    \/ GetCaseSummary
    \/ SuggestKnowledgeArticle
    \/ AnalyzeCase
    \/ FollowUpCase
    \/ TriageNewCase
    \/ HandleRequest
    \/ DescribeSobject
    \/ DescribeWorkflowObjects
    \/ GetCaseEmails
    \/ DraftCaseEmail
    \/ SendCaseEmail
    \/ UpdateCase
    \/ AddCaseComment
    \/ CreateKnowledgeArticle
    \/ UnknownTool
    \/ Return

Spec == Init /\ [][Next]_vars

InitClosure ==
    /\ \E fix_status, validation_status \in
              {None, "", "Implemented", "implemented", "Completed", "In Progress"} :
          InitServer(fix_status, validation_status, "High")
    /\ term = ""
    /\ built = NotBuilt

SpecClosure ==
    InitClosure
    /\ [][GetCaseSummary \/ SuggestKnowledgeArticle \/ AnalyzeCase \/ Return]_vars

(***************************************************************************)
(* How the CRM's query languages read a literal back: a backslash makes    *)
(* the next character literal, the first unescaped terminator ends it.     *)
(***************************************************************************)

\* q[i] follows an odd run of backslashes that starts at or after from
EscapedAt(q, from, i) ==
    LET run == CHOOSE j \in (from - 1)..(i - 1) :
                   /\ \A k \in (j + 1)..(i - 1) : CharAt(q, k) = "\\"
                   /\ j = from - 1 \/ CharAt(q, j) # "\\"
    IN  (i - 1 - run) % 2 = 1

\* the characters of q from i up to end, each escaping backslash dropped
RECURSIVE Unescaped(_, _, _)
Unescaped(q, i, end) ==
    IF i >= end THEN ""
    ELSE IF CharAt(q, i) = "\\" /\ i + 1 < end
    THEN CharAt(q, i + 1) \o Unescaped(q, i + 2, end)
    ELSE CharAt(q, i) \o Unescaped(q, i + 1, end)

\* the literal that starts at q[from]: end is the place of the first
\* terminator no backslash escapes, 0 when the literal never closes
ReadLiteral(q, from, terminator) ==
    LET closes == { i \in from..Len(q) :
                       CharAt(q, i) = terminator /\ ~EscapedAt(q, from, i) }
        end == CHOOSE i \in closes : \A j \in closes : i <= j
    IN  IF closes = {} THEN [lit |-> "", end |-> 0]
        ELSE [lit |-> Unescaped(q, from, end), end |-> end]

\* the literal of FIND {...}
FindLiteral(q) == ReadLiteral(q, Len(SoslFindPrefix) + 1, "}")

\* the literal of <field> LIKE '...'
LikeLiteral(field, q) == ReadLiteral(q, Len(field \o " LIKE '") + 1, "'")

(***************************************************************************)
(* Escaping specification: a text is drawn, an escape function is applied  *)
(* and the query fragment is built from the result.                        *)
(***************************************************************************)

MaxTermLen == 3
MaxOtherWrites == 2
MaxProbeRows == 51

RECURSIVE TextsOfLen(_)
TextsOfLen(n) ==
    IF n = 0 THEN {""}
    ELSE { t \o c : t \in TextsOfLen(n - 1), c \in {"a", "'", "\\", "}", "-"} }

EscapeSosl ==
    /\ built = NotBuilt
    /\ built' = [fn |-> "_escape_sosl",
                 escaped |-> escape_sosl(term),
                 query |-> sosl_query(term)]
    /\ UNCHANGED <<term, sf, cases, comments, kav, caseArticle, emails, call, pending>>

EscapeSoql ==
    /\ built = NotBuilt
    /\ built' = [fn |-> "_escape_soql",
                 escaped |-> escape_soql(term),
                 query |-> like_condition("Subject", term)]
    /\ UNCHANGED <<term, sf, cases, comments, kav, caseArticle, emails, call, pending>>

\* update_case up to "if not case": the connection and the read of the case.
\* A call that ends there is delivered whole; otherwise the case read is held
\* until the update is sent.
ReadCase ==
    /\ call.kind = "idle"
    /\ pending.stage = "none"
    /\ \E n \in CaseNumbers,
          fields \in {[Status |-> "Closed", Validation_Status__c |-> "Completed"],
                      [Priority |-> "Low"]},
          env \in Envs({"query:Case", "update:Case"}) :
        \E arguments \in {[case_number |-> n, fields |-> fields]},
           s \in {[sf |-> sf,
                   db |-> [cases |-> cases, comments |-> comments, kav |-> kav,
                           caseArticle |-> caseArticle, emails |-> emails],
                   log |-> << >>, raised |-> FALSE, ret |-> NoneRec]} :
        \E k \in {get_case(connect(s, env), env, n)} :
            IF k.raised \/ k.ret = NoneRec
            THEN /\ Deliver("update_case", arguments,
                            call_tool("update_case", arguments, s, env))
                 /\ UNCHANGED pending
            ELSE /\ pending' = [pending EXCEPT !.stage = "read",
                                               !.arguments = arguments,
                                               !.env = env, !.k = k]
                 /\ sf' = k.sf
                 /\ UNCHANGED <<cases, comments, kav, caseArticle, emails, call>>
    /\ UNCHANGED <<term, built>>

\* another user of the CRM changes a case, at any moment
OtherWriter ==
    /\ pending.writes < MaxOtherWrites
    /\ \E n \in DOMAIN cases,
          change \in {[Status |-> "Escalated"], [Priority |-> "Critical"]} :
        /\ cases' = [cases EXCEPT ![n] = Updated(@, change)]
        /\ pending' = [pending EXCEPT
                          !.writes = @ + 1,
                          !.raced = @ \/ (pending.stage = "read"
                                           /\ pending.k.ret.CaseNumber = n)]
    /\ UNCHANGED <<sf, comments, kav, caseArticle, emails, call, term, built>>

\* update_case from case_id = case['Id'] on, and the tool's report: the update
\* is sent for the case held since the read, to the CRM as it is now
ApplyUpdate ==
    /\ pending.stage = "read"
    /\ Deliver("update_case", pending.arguments,
               update_case_report(
                   update_case_by_id(
                       [pending.k EXCEPT
                           !.sf = sf,
                           !.db = [cases |-> cases, comments |-> comments, kav |-> kav,
                                   caseArticle |-> caseArticle, emails |-> emails]],
                       pending.env, pending.k.ret,
                       pending.arguments.case_number, pending.arguments.fields),
                   pending.arguments.fields))
    /\ pending' = [pending EXCEPT !.stage = "done"]
    /\ UNCHANGED <<term, built>>

\* update_case with its two upstream calls as separate steps, next to another
\* user of the CRM
SpecRace == Init /\ [][ReadCase \/ OtherWriter \/ ApplyUpdate \/ Return]_vars

\* the server before its first call, on a CRM whose one case is drawn: its
\* texts, its priority, its validation status, whether it carries a
\* modification date, and how many comments it has
InitInsight ==
    /\ \E text \in {<<"Printer firmware outage", "Important: error on the board">>,
                     <<"Report deadline", "A bug in the SDK">>,
                     <<"Login PROBLEM", None>>,
                     <<"Feature request", "An inquiry">>,
                     <<"Countdown timer", "A question">>,
                     <<"Hello", "Nothing to add">>},
          priority \in {"High", "Low"},
          validation_status \in {"Completed", None},
          modified \in {"2024-01-05T09:00:00.000+0000", None},
          n \in {0, 1, MaxProbeRows} :
        /\ cases = [k \in {ExistingCase} |->
                       [Id |-> ExistingId,
                        CaseNumber |-> ExistingCase,
                        Subject |-> text[1],
                        Description |-> text[2],
                        Status |-> "Working",
                        Priority |-> priority,
                        ContactName |-> "Pat Lee",
                        ContactEmail |-> "pat.lee@example.com",
                        CreatedDate |-> "2024-01-01T09:00:00.000+0000",
                        LastModifiedDate |-> modified,
                        Fix_Status__c |-> "Implemented",
                        Validation_Status__c |-> validation_status]]
        /\ comments = [i \in {ExistingId} |-> n]
    /\ sf = FALSE
    /\ kav = << >>
    /\ caseArticle = {}
    /\ emails = 0
    /\ call = Idle
    /\ pending = NoPending
    /\ term = ""
    /\ built = NotBuilt

\* one read of the drawn case, or one search, on a CRM that holds up to
\* MaxProbeRows rows for each list query, so many days after the last change
Probe ==
    \E name \in {"analyze_case", "triage_new_case", "search_cases", "get_case_details",
                 "get_case_history", "get_case_timeline", "get_related_cases",
                 "get_case_emails"} :
        Invoke(name,
               IF name = "search_cases" THEN {[query_string |-> "printer error"]}
               ELSE {[case_number |-> ExistingCase]},
               { [Quiet EXCEPT !.history = n, !.feed = n, !.emails = n, !.sosl = n,
                               !.fuzzy = MaxProbeRows, !.related = r, !.days = d]
                   : n \in {0, MaxProbeRows},
                     r \in {0, ManyRelated, ManyRelated + 1, MaxProbeRows},
                     d \in {0, StaleDays, StaleDays + 1} })

SpecInsight == InitInsight /\ [][Probe \/ Return]_vars

InitEscape ==
    /\ InitServer("Implemented", None, "High")
    /\ term \in (UNION { TextsOfLen(n) : n \in 0..MaxTermLen })
    /\ built = NotBuilt

SpecEscape == InitEscape /\ [][EscapeSosl \/ EscapeSoql]_vars

HasNone(t, chars) == \A i \in 1..Len(t) : CharAt(t, i) \notin chars

\* C5: escaping a text that holds no reserved character returns the text
\* unchanged: _escape_sosl on a text with no SOSL reserved character,
\* _escape_soql on a text with no single quote and no backslash.
C5_EscapeNoReservedIsNoOp ==
    /\ (built.fn = "_escape_sosl" /\ HasNone(term, reserved_chars))
          => built.escaped = term
    /\ (built.fn = "_escape_soql" /\ HasNone(term, {"'", "\\"}))
          => built.escaped = term

C5_Witness ==
    /\ built.fn \in {"_escape_sosl", "_escape_soql"}
    /\ Len(term) = MaxTermLen
    /\ HasNone(term, reserved_chars)
    /\ built.escaped = term

\* C6: the single-quoted LIKE literal built from _escape_soql(term) reads
\* back as %term%: it ends at the closing quote of the condition and holds
\* exactly the term's characters.
C6_SoqlLiteralRoundTrip ==
    built.fn = "_escape_soql" =>
        /\ LikeLiteral("Subject", built.query).lit = "%" \o term \o "%"
        /\ LikeLiteral("Subject", built.query).end = Len(built.query)

\* C7: the FIND {...} literal built from _escape_sosl(text) reads back as the
\* text: the closing brace of the clause ends it, every reserved character
\* carries exactly one escaping backslash and no other character changes.
C7_SoslLiteralRoundTrip ==
    built.fn = "_escape_sosl" =>
        /\ FindLiteral(built.query).lit = term
        /\ FindLiteral(built.query).end = Len(SoslFindPrefix) + Len(built.escaped) + 1
        /\ Len(built.escaped) =
             Len(term) + Cardinality({ i \in 1..Len(term) : CharAt(term, i) \in reserved_chars })

C7_Witness ==
    /\ built.fn = "_escape_sosl"
    /\ Contains(term, "\\")
    /\ Contains(term, "}")
    /\ Contains(term, "'")
    /\ FindLiteral(built.query).lit = term

(***************************************************************************)
(* Properties of a finished call                                           *)
(***************************************************************************)

Finished == call.kind # "idle"

\* the text of the call's single content block
Text == call.content[1].text

Upstream(log) == SelectSeq(log, LAMBDA e : e.layer = "upstream")

Invocations(log, op) ==
    Cardinality({ i \in 1..Len(log) : log[i].layer = "adapter" /\ log[i].op = op })

\* C1: the readiness shown by get_case_summary (get_case_summary_data) and by
\* analyze_case (get_comprehensive_case_data) is ready exactly when the fix
\* status is "Implemented" and the validation status is "Completed",
\* pending_validation exactly when the fix status is "Implemented" and the
\* validation status is anything else, and in_progress exactly otherwise.
C1_ClosureReadiness ==
    LET fix_status == cases[ExistingCase].Fix_Status__c
        validation_status == cases[ExistingCase].Validation_Status__c
        shown(r) == Contains(Text, "Closure Readiness: " \o r \o "\n")
    IN  (/\ call.name \in {"get_case_summary", "analyze_case"}
         /\ call.kind = "text"
         /\ Contains(Text, "Closure Readiness: "))
        => /\ shown("ready") <=>
                (fix_status = "Implemented" /\ validation_status = "Completed")
           /\ shown("pending_validation") <=>
                (fix_status = "Implemented" /\ validation_status # "Completed")
           /\ shown("in_progress") <=> (fix_status # "Implemented")

C1_Witness ==
    /\ call.name = "get_case_summary"
    /\ call.kind = "text"
    /\ cases[ExistingCase].Fix_Status__c = "Implemented"
    /\ cases[ExistingCase].Validation_Status__c = "In Progress"
    /\ Contains(Text, "Closure Readiness: pending_validation\n")

SearchTools == {"search", "search_cases"}

\* results the full-text search of this call returned
FullTextHits(log) ==
    Cardinality({ i \in 1..Len(log) :
                    /\ log[i].layer = "upstream"
                    /\ log[i].op = "search"
                    /\ log[i].n > 0 })

\* C2: a search that got its connection runs the full-text search first and
\* once; the partial-match fallback runs once when the full-text search
\* returned nothing and not at all when it returned a result; no full-text
\* search follows the fallback.
C2_FallbackOrder ==
    LET methods == SelectSeq(call.log, LAMBDA e : e.layer = "adapter")
    IN  (/\ call.name \in SearchTools
         /\ call.kind = "text")
        => /\ Len(methods) >= 1
           /\ methods[1].op = "_search_cases_sosl"
           /\ Invocations(call.log, "_search_cases_sosl") = 1
           /\ Invocations(call.log, "_search_cases_fuzzy") =
                 (IF FullTextHits(call.log) = 0 THEN 1 ELSE 0)
           /\ \A i, j \in 1..Len(methods) :
                 (methods[i].op = "_search_cases_fuzzy" /\ i < j)
                     => methods[j].op # "_search_cases_sosl"

C2_Witness ==
    /\ call.name = "search_cases"
    /\ call.kind = "text"
    /\ FullTextHits(call.log) = 0
    /\ Invocations(call.log, "_search_cases_fuzzy") = 1
    /\ \E i \in 1..Len(call.log) : call.log[i].op = "query:Fuzzy" /\ call.log[i].n > 0

CaseTools ==
    {"fetch", "get_case_details", "get_case_history", "get_case_timeline",
     "get_related_cases", "get_case_articles", "get_case_summary",
     "suggest_knowledge_article", "analyze_case", "follow_up_case",
     "triage_new_case", "get_case_emails", "draft_case_email", "send_case_email",
     "update_case", "add_case_comment"}

CaseLookups == {"query:Case", "query:CaseStatus", "query:CaseContact"}

\* the case number the call was given; fetch names it id
GivenCase ==
    Get(call.arguments, IF call.name = "fetch" THEN "id" ELSE "case_number", None)

\* the call looked the case up and the CRM answered that there is none
LookupFoundNothing ==
    /\ Str(GivenCase) \notin DOMAIN cases
    /\ \E i \in 1..Len(call.log) :
          /\ call.log[i].op \in CaseLookups
          /\ call.log[i].out = "ok"
          /\ call.log[i].n = 0

\* C3: when a case tool looks its case up and no case has that number, the
\* call returns one text holding "Case <number> not found" and the lookup is
\* its last upstream call.
C3_AbsentCaseNotFound ==
    (/\ Finished
     /\ call.name \in CaseTools
     /\ LookupFoundNothing)
    => /\ call.kind = "text"
       /\ Len(call.content) = 1
       /\ Contains(Text, "Case " \o Str(GivenCase) \o " not found")
       /\ Upstream(call.log)[Len(Upstream(call.log))].op \in CaseLookups

C3_Witness ==
    /\ call.name = "send_case_email"
    /\ GivenCase = AbsentCase
    /\ LookupFoundNothing
    /\ Contains(Text, "Case " \o AbsentCase \o " not found")
    /\ emails = 0

IsDigit(c) == c \in Digits

\* the 8-digit numbers of a text: runs of exactly eight digits
EightDigitNumbers(t) ==
    { SubSeq(t, i, i + 7) :
        i \in { k \in 1..(Len(t) - 7) :
                  /\ \A j \in k..(k + 7) : IsDigit(CharAt(t, j))
                  /\ k = 1 \/ ~IsDigit(CharAt(t, k - 1))
                  /\ k + 8 > Len(t) \/ ~IsDigit(CharAt(t, k + 8)) } }

\* C4: handle_request, given no case number in its context and a request
\* text holding an 8-digit number, passes that number as the case number to
\* the tool it dispatches to.
C4_ExtractsEightDigitNumber ==
    (/\ call.name = "handle_request"
     /\ Finished
     /\ "request" \in DOMAIN call.arguments
     /\ "context" \notin DOMAIN call.arguments
     /\ EightDigitNumbers(call.arguments.request) # {}
     /\ call.inner # << >>
     /\ "case_number" \in DOMAIN call.inner[1].arguments)
    => call.inner[1].arguments.case_number
           \in EightDigitNumbers(call.arguments.request)

\* C8: once create_knowledge_article has reported an article as created and
\* linked to a case that exists, a get_case_articles lookup of that case
\* whose upstream calls all succeed lists the article.
C8_CreatedArticleIsListed ==
    (/\ call.name = "get_case_articles"
     /\ Finished
     /\ Str(GivenCase) \in DOMAIN cases
     /\ \A i \in 1..Len(call.log) : call.log[i].out # "error")
    => \A i \in 1..Len(kav) :
          kav[i].linked_case = GivenCase
              => /\ call.kind = "text"
                 /\ Contains(Text, "- " \o kav[i].Title \o " (" \o kav[i].UrlName \o ")")

\* C9: a call naming no registered tool raises: it returns no content list
\* and makes no upstream call.
C9_UnknownToolRaises ==
    (Finished /\ call.name \notin ToolNames)
    => /\ call.kind = "raise"
       /\ call.content = << >>
       /\ Upstream(call.log) = << >>

C9_Witness ==
    /\ call.name = "delete_case"
    /\ call.kind = "raise"
    /\ call.log = << >>

\* C10: a call of a registered tool that lacks an argument the tool's
\* inputSchema requires makes no upstream call and returns an error text.
C10_MissingRequiredCaught ==
    (/\ Finished
     /\ call.name \in ToolNames
     /\ \E a \in Required(call.name) : a \notin DOMAIN call.arguments)
    => /\ Upstream(call.log) = << >>
       /\ call.kind = "text"
       /\ Contains(Text, "Error")

\* C11: a call of a registered tool never ends in an exception: whatever
\* fails upstream, the call returns a text.
C11_FailuresBecomeText ==
    (Finished /\ call.name \in ToolNames) => call.kind = "text"

\* C12: every call that returns, handle_request routed to another tool
\* included, returns a list of exactly one content block, and that block is
\* a text block.
C12_OneTextBlock ==
    (Finished /\ call.kind = "text")
    => /\ Len(call.content) = 1
       /\ DOMAIN call.content[1] = {"type", "text"}
       /\ call.content[1].type = "text"

C12_Witness ==
    /\ call.name = "handle_request"
    /\ call.kind = "text"
    /\ call.inner # << >>
    /\ call.inner[1].name = "analyze_case"
    /\ Len(call.content) = 1
    /\ Contains(Text, "Closure Readiness: ")

WriteTools == {"update_case", "add_case_comment", "create_knowledge_article"}

\* upstream calls of this invocation, among ops, that went through
Succeeded(ops) ==
    Cardinality({ i \in 1..Len(call.log) :
                    /\ call.log[i].layer = "upstream"
                    /\ call.log[i].op \in ops
                    /\ call.log[i].out = "ok" })

ArticleCreates == {"create:Knowledge__kav", "create:KnowledgeArticle"}

\* the upstream calls that create, change or send something
Mutations ==
    Succeeded({"update:Case", "create:CaseComment", "create:CaseArticle",
               "create:EmailMessage", "restful:emailSimple"} \cup ArticleCreates)

ReportsSuccess ==
    /\ call.kind = "text"
    /\ \/ StartsAt(Text, "CASE UPDATED SUCCESSFULLY", 1)
       \/ StartsAt(Text, "COMMENT ADDED", 1)
       \/ StartsAt(Text, "KNOWLEDGE ARTICLE CREATED", 1)

ReportsNotFound ==
    /\ call.kind = "text"
    /\ Contains(Text, "Case " \o Str(GivenCase) \o " not found")

\* the link step of this create_knowledge_article call went through
LinkMade ==
    /\ Truthy(GivenCase)
    /\ GivenCase \in DOMAIN cases
    /\ \A i \in 1..Len(call.log) :
          call.log[i].op \in {"query:Case", "create:CaseArticle"}
              => call.log[i].out = "ok"

\* C13 as stated: a write tool that reports success has caused exactly one
\* upstream mutation, and one that reports the case as not found has caused
\* none.
C13_OneMutationPerWrite ==
    (Finished /\ call.name \in WriteTools)
    => /\ ReportsSuccess => Mutations = 1
       /\ ReportsNotFound => Mutations = 0

\* C13 as amended: update_case and add_case_comment cause exactly one mutation
\* when they report success; create_knowledge_article creates exactly one
\* article and, exactly when a case number is given, the case exists and the
\* link step goes through, one CaseArticle link besides; a call that reports
\* the case as not found causes none.
C13_MutationsPerWrite ==
    (Finished /\ call.name \in WriteTools)
    => /\ (ReportsSuccess /\ call.name # "create_knowledge_article")
             => Mutations = 1
       /\ (ReportsSuccess /\ call.name = "create_knowledge_article")
             => /\ Succeeded(ArticleCreates) = 1
                /\ Succeeded({"create:CaseArticle"}) = (IF LinkMade THEN 1 ELSE 0)
                /\ Mutations = 1 + Succeeded({"create:CaseArticle"})
       /\ ReportsNotFound => Mutations = 0

C13_Witness ==
    /\ call.name = "create_knowledge_article"
    /\ ReportsSuccess
    /\ LinkMade
    /\ Mutations = 2
    /\ Len(kav) = 1
    /\ caseArticle # {}

\* the upstream write the adapter turns to when the write op has failed
Alternatives(op) ==
    CASE op = "restful:emailSimple" -> {"create:EmailMessage"}
      [] op = "create:Knowledge__kav" -> {"create:KnowledgeArticle"}
      [] OTHER -> {}

WriteHeadlines ==
    {"CASE UPDATED SUCCESSFULLY", "COMMENT ADDED", "KNOWLEDGE ARTICLE CREATED",
     "EMAIL SENT SUCCESSFULLY"}

\* C14: within one invocation, once an upstream operation has failed, no
\* later upstream call repeats it or stands in for it, and the invocation
\* does not report a successful write.
C14_NoRetry ==
    Finished =>
        \A i \in 1..Len(call.log) :
            (call.log[i].layer = "upstream" /\ call.log[i].out = "error")
            => /\ \A j \in (i + 1)..Len(call.log) :
                     call.log[j].op \notin {call.log[i].op} \cup Alternatives(call.log[i].op)
               /\ call.kind = "text"
                     => \A h \in WriteHeadlines : ~StartsAt(Text, h, 1)

\* the logins of an invocation, and those that created a connection
Logins(log) ==
    Cardinality({ i \in 1..Len(log) : log[i].op = "login" })

LoginsMade(log) ==
    Cardinality({ i \in 1..Len(log) : log[i].op = "login" /\ log[i].out = "ok" })

\* C15: there is one client connection: none after construction; an
\* invocation logs in only while none is held, at most once, and holds the
\* connection afterwards exactly when that login went through; every other
\* upstream call is made on a held connection; an invocation made while one
\* is held logs in no more, and a held connection is never dropped.
C15_SingleConnection ==
    /\ ~sf
    /\ [][/\ sf => sf'
          /\ call'.kind # "idle"
                => /\ sf => Logins(call'.log) = 0
                   /\ ~sf => /\ Logins(call'.log) <= 1
                             /\ sf' <=> LoginsMade(call'.log) = 1
                   /\ Upstream(call'.log) # << >> /\ ~sf'
                         => /\ Len(Upstream(call'.log)) = 1
                            /\ call'.kind = "raise"]_vars

C15_Witness ==
    /\ sf
    /\ call.kind = "text"
    /\ Logins(call.log) = 0
    /\ Len(Upstream(call.log)) >= 2


\* C16: update_case reads the case by its number and then updates by the Id
\* it read, with nothing between the two calls: when another writer has
\* changed the case since the read and the update call itself goes through,
\* the step that completes the update issues exactly one more upstream call,
\* the update of the Id read earlier; the named fields take the update's
\* values over the record as the other writer left it (last write wins), and
\* the tool reports success
C16_LastWriteWins ==
    [][(pending.stage = "read" /\ pending'.stage = "done" /\ pending.raced
            /\ "update:Case" \notin pending.env.fail)
        => LET read   == pending.k.ret
               fields == pending.arguments.fields
           IN /\ call'.log = pending.k.log
                     \o <<[layer |-> "upstream", op |-> "update:Case",
                           arg |-> read.Id, out |-> "ok", n |-> 0]>>
              /\ call'.kind = "text"
              /\ StartsAt(call'.content[1].text, "CASE UPDATED SUCCESSFULLY", 1)
              /\ cases'[read.CaseNumber] =
                     [f \in DOMAIN read |->
                         IF f \in DOMAIN fields THEN fields[f]
                         ELSE cases[read.CaseNumber][f]]]_vars

C16_Witness ==
    /\ pending.stage = "done"
    /\ pending.raced
    /\ pending.k.ret.Priority = "High"
    /\ pending.k.ret.Status = "Working"
    /\ call.kind = "text"
    /\ StartsAt(Text, "CASE UPDATED SUCCESSFULLY", 1)
    /\ cases[ExistingCase].Status = "Closed"
    /\ cases[ExistingCase].Priority = "Critical"


\* the categories in the order the claims give them, "general" last
IntentOrder ==
    <<"status_check", "follow_up", "search", "closure_check", "triage", "kba_check",
      "analyze", "general">>

\* the categories that have a keyword occurring in the lower-cased text
Matched(text) ==
    { intent_keywords[i].intent : i \in
          { j \in 1..Len(intent_keywords) :
                \E w \in 1..Len(intent_keywords[j].words) :
                    Contains(text, intent_keywords[j].words[w]) } }

\* the earliest category in IntentOrder that matches; "general" matches always
Earliest(text) ==
    IntentOrder[CHOOSE i \in 1..Len(IntentOrder) :
                    /\ IntentOrder[i] \in Matched(text) \cup {"general"}
                    /\ \A j \in 1..(i - 1) : IntentOrder[j] \notin Matched(text)]

\* the tool each category is dispatched to
ToolFor(intent) ==
    CASE intent \in {"status_check", "analyze"} -> "analyze_case"
      [] intent = "follow_up" -> "follow_up_case"
      [] intent = "search" -> "search_cases"
      [] intent = "closure_check" -> "get_case_summary"
      [] intent = "triage" -> "triage_new_case"
      [] intent = "kba_check" -> "suggest_knowledge_article"
      [] OTHER -> ""

\* the lower-cased request text of the handle_request call
RequestText == Lower(Get(call.arguments, "request", ""))

\* C17: the intent handle_request detects is the earliest category, in the
\* order status_check, follow_up, search, closure_check, triage, kba_check,
\* analyze, general, with a keyword occurring in the lower-cased request: it
\* is the intent the answer names when nothing is dispatched, and the one whose
\* tool is invoked when the request is dispatched
C17_FirstMatchWins ==
    (Finished /\ call.name = "handle_request")
        => IF call.inner = << >>
           THEN /\ call.kind = "text"
                /\ Contains(Text, "Detected Intent: " \o Earliest(RequestText) \o "\n")
           ELSE call.inner[1].name = ToolFor(Earliest(RequestText))

C17_Witness ==
    /\ Finished
    /\ call.name = "handle_request"
    /\ Cardinality(Matched(RequestText)) >= 2
    /\ Matched(RequestText) = {"status_check", "follow_up"}
    /\ Contains(Text, "Detected Intent: status_check\n")


\* the arguments of the direct call each category stands for
DirectArguments(intent, case_number, text) ==
    CASE intent \in {"status_check", "analyze"} ->
            [case_number |-> case_number, depth |-> "full"]
      [] intent = "follow_up" ->
            [case_number |-> case_number, customer_question |-> text]
      [] intent = "search" -> [query_string |-> search_terms(text)]
      [] OTHER -> [case_number |-> case_number]

\* C18: when handle_request detects an intent other than general and a case
\* number is available (from the context or extracted from the text), or the
\* intent is search, what the call returns or raises, the upstream calls it
\* makes and the state it leaves are exactly those of the category's tool
\* called directly on the same connection and CRM, with that case number and
\* the same upstream answers: analyze_case at depth full for status_check and
\* analyze, follow_up_case for follow_up, get_case_summary for closure_check,
\* triage_new_case for triage, suggest_knowledge_article for kba_check, and
\* search_cases on the request stripped of its search keywords for search
C18_SameAsDirectCall ==
    [][(call.kind = "idle" /\ call'.kind # "idle" /\ call'.name = "handle_request")
        => \A text \in {Lower(Get(call'.arguments, "request", ""))},
              case_number \in {request_case_number(call'.arguments)} :
           \A intent \in {Earliest(text)} :
              (intent = "search" \/ (intent # "general" /\ Truthy(case_number)))
              => \E env \in Envs(ComprehensiveOps \cup {"search", "query:Fuzzy"}) :
                 \E d \in {call_tool(ToolFor(intent),
                                     DirectArguments(intent, case_number, text),
                                     [sf |-> sf,
                                      db |-> [cases |-> cases, comments |-> comments,
                                              kav |-> kav, caseArticle |-> caseArticle,
                                              emails |-> emails],
                                      log |-> << >>, raised |-> FALSE, ret |-> NoneRec],
                                     env)} :
                      /\ call'.kind = (IF d.raised THEN "raise" ELSE "text")
                      /\ call'.content = d.content
                      /\ call'.log = d.log
                      /\ sf' = d.sf
                      /\ <<cases', comments', kav', caseArticle', emails'>>
                            = <<d.db.cases, d.db.comments, d.db.kav, d.db.caseArticle,
                                d.db.emails>>]_vars

C18_Witness ==
    /\ call.name = "handle_request"
    /\ call.kind = "text"
    /\ Earliest(RequestText) = "triage"
    /\ Matched(RequestText) = {"triage", "analyze"}
    /\ call.inner # << >>
    /\ call.inner[1].name = "triage_new_case"
    /\ call.inner[1].arguments.case_number = ExistingCase
    /\ Contains(Text, ExistingCase)


ReadTools ==
    {"search", "fetch", "get_case_details", "search_cases", "get_case_history",
     "get_case_timeline", "get_related_cases", "get_case_articles", "get_case_summary",
     "suggest_knowledge_article", "analyze_case", "follow_up_case", "triage_new_case",
     "handle_request", "describe_sobject", "describe_workflow_objects",
     "get_case_emails", "draft_case_email"}

\* an upstream call that creates, updates or sends
IsWrite(op) ==
    \/ op \in {"restful:emailSimple"}
    \/ StartsAt(op, "create:", 1)
    \/ StartsAt(op, "update:", 1)

\* C19: an invocation of a read tool issues no upstream create, update or
\* send, whether it would succeed or fail, and leaves every CRM record as it
\* was before the call
C19_ReadToolsDoNotWrite ==
    [][(call.kind = "idle" /\ call'.kind # "idle" /\ call'.name \in ReadTools)
        => /\ \A i \in 1..Len(call'.log) : ~IsWrite(call'.log[i].op)
           /\ UNCHANGED <<cases, comments, kav, caseArticle, emails>>]_vars

C19_Witness ==
    /\ call.name = "draft_case_email"
    /\ call.kind = "text"
    /\ Contains(Text, "pat.lee@example.com")
    /\ StartsAt(Text, "=== DRAFT EMAIL", 1)
    /\ \E i \in 1..Len(call.log) : call.log[i].op = "query:CaseContact"
    /\ emails = 0


\* the categories whose tool works on one case
NeedsCase == {"status_check", "analyze", "follow_up", "closure_check", "triage", "kba_check"}

\* C20: a handle_request whose lower-cased request holds no intent keyword
\* answers with intent general and the help message; one whose intent needs
\* a case number, with none in the context and none extracted from the
\* text, answers with the prompt for a case number; in both cases nothing is
\* dispatched and no upstream call is made, not even a login
C20_NoCallWithoutIntentOrCase ==
    (Finished /\ call.name = "handle_request")
        => /\ Earliest(RequestText) = "general"
                => /\ call.kind = "text"
                   /\ Contains(Text, "Detected Intent: general\n")
                   /\ Contains(Text, "I couldn't determine a specific intent.")
                   /\ Contains(Text, "Available actions:")
                   /\ ~Contains(Text, "Please specify a case number")
                   /\ call.inner = << >>
                   /\ call.log = << >>
           /\ (Earliest(RequestText) \in NeedsCase
                  /\ ~Truthy(request_case_number(call.arguments)))
                => /\ call.kind = "text"
                   /\ Contains(Text, "Detected Case: None\n")
                   /\ Contains(Text, "Please specify a case number for ")
                   /\ ~Contains(Text, "Available actions:")
                   /\ call.inner = << >>
                   /\ call.log = << >>

C20_Witness ==
    /\ call.name = "handle_request"
    /\ Earliest(RequestText) = "status_check"
    /\ "context" \notin DOMAIN call.arguments
    /\ ~Truthy(request_case_number(call.arguments))
    /\ ~sf
    /\ call.log = << >>
    /\ Contains(Text, "Please specify a case number for status check.")


\* a missing status read as the empty string
Given(status) == IF status = None THEN "" ELSE status

\* the connection and the CRM as they are now
Now ==
    [sf |-> sf,
     db |-> [cases |-> cases, comments |-> comments, kav |-> kav,
             caseArticle |-> caseArticle, emails |-> emails],
     log |-> << >>, raised |-> FALSE, ret |-> NoneRec]

\* C22: for a case whose fix status or validation status is missing, the
\* technical_summary that get_case_summary_data (behind get_case_summary)
\* and get_comprehensive_case_data (behind analyze_case) return holds the
\* empty string for the missing field, and the closure readiness computed
\* for the empty string
C22_MissingStatusIsEmpty ==
    (/\ call.name \in {"get_case_summary", "analyze_case"}
     /\ call.kind = "text"
     /\ Contains(Text, "Closure Readiness: ")
     /\ None \in {cases[GivenCase].Fix_Status__c, cases[GivenCase].Validation_Status__c})
        => \A fix \in {Given(cases[GivenCase].Fix_Status__c)},
              validation \in {Given(cases[GivenCase].Validation_Status__c)},
              data \in {IF call.name = "get_case_summary"
                        THEN get_case_summary_data(Now, Quiet, GivenCase).ret
                        ELSE get_comprehensive_case_data(Now, Quiet, GivenCase, "full").ret} :
              /\ data.technical_summary.fix_status = fix
              /\ data.technical_summary.validation_status = validation
              /\ data.technical_summary.closure_readiness =
                     (IF fix = "Implemented" /\ validation = "Completed" THEN "ready"
                      ELSE IF fix = "Implemented" THEN "pending_validation"
                      ELSE "in_progress")


\* C25: suggest_knowledge_article on a case it finds answers 'Eligible: Yes'
\* exactly when the fix status is "Implemented" and the validation status is
\* "Completed"; with the fix implemented and any other validation status it
\* answers 'Eligible: No' because validation is not complete, and with any
\* other fix status 'Eligible: No' because the case is still in progress
C25_EligibleIffReady ==
    (/\ call.name = "suggest_knowledge_article"
     /\ call.kind = "text"
     /\ Contains(Text, "Eligible: "))
        => \A fix \in {cases[GivenCase].Fix_Status__c},
              validation \in {cases[GivenCase].Validation_Status__c} :
              /\ Contains(Text, "\nEligible: Yes\n")
                    <=> (fix = "Implemented" /\ validation = "Completed")
              /\ Contains(Text, "\nEligible: No\n")
                    <=> ~(fix = "Implemented" /\ validation = "Completed")
              /\ (fix = "Implemented" /\ validation # "Completed")
                    => Contains(Text, "\nReason: Fix is implemented but validation is not yet complete.\n\nComplete validation before considering KBA creation.")
              /\ fix # "Implemented"
                    => Contains(Text, "\nReason: Case is still in progress.\n\nResolve the case before considering KBA creation.")

C25_Witness ==
    /\ call.name = "suggest_knowledge_article"
    /\ call.kind = "text"
    /\ cases[ExistingCase].Fix_Status__c = "Implemented"
    /\ cases[ExistingCase].Validation_Status__c = "Completed"
    /\ Contains(Text, "\nEligible: Yes\n")
    /\ Contains(Text, "Suggested KBA Title: Printer firmware outage")


\* the read tools that look their case up with get_case or get_case_with_status
LookupReadTools ==
    {"fetch", "get_case_details", "get_case_history", "get_case_timeline",
     "get_related_cases", "get_case_articles", "get_case_summary",
     "suggest_knowledge_article", "analyze_case", "follow_up_case",
     "triage_new_case", "get_case_emails"}

\* the case lookup of the call failed upstream
LookupFailed ==
    \E i \in 1..Len(call.log) :
        call.log[i].op \in {"query:Case", "query:CaseStatus"} /\ call.log[i].out = "error"

\* the case lookup of the call went through and returned no record
LookupEmpty ==
    \E i \in 1..Len(call.log) :
        /\ call.log[i].op \in {"query:Case", "query:CaseStatus"}
        /\ call.log[i].out = "ok"
        /\ call.log[i].n = 0

\* C27: a read tool whose case lookup (get_case or get_case_with_status)
\* fails upstream answers as it does for a case that does not exist: in both
\* situations the whole answer is the one text 'Case <number> not found.' and
\* the lookup is the last upstream call
C27_FailedLookupReadsAsAbsent ==
    (Finished /\ call.name \in LookupReadTools /\ (LookupFailed \/ LookupEmpty))
        => /\ call.kind = "text"
           /\ call.content = <<[type |-> "text",
                                text |-> "Case " \o Str(GivenCase) \o " not found."]>>
           /\ call.log[Len(call.log)].op \in {"query:Case", "query:CaseStatus"}

C27_Witness ==
    /\ call.name = "get_case_history"
    /\ GivenCase = ExistingCase
    /\ ExistingCase \in DOMAIN cases
    /\ LookupFailed
    /\ Text = "Case " \o ExistingCase \o " not found."


\* upstream calls of the finished call with this operation and outcome
Calls(log, ops, out) ==
    { i \in 1..Len(log) : log[i].layer = "upstream" /\ log[i].op \in ops /\ log[i].out = out }

\* C28: a create_knowledge_article call that creates the article (by either
\* creation attempt) answers KNOWLEDGE ARTICLE CREATED and names the requested
\* case as the linked case, whether the junction record was created, the case
\* did not exist, or the lookup or the link creation failed, and the article
\* stays in the CRM; a call whose two creation attempts both fail answers
\* with the error, makes no case lookup and no link creation, and leaves no
\* article
C28_OutcomeIgnoresLinking ==
    [][(call.kind = "idle" /\ call'.kind # "idle"
            /\ call'.name = "create_knowledge_article"
            /\ Calls(call'.log, ArticleCreates, "error") \cup Calls(call'.log, ArticleCreates, "ok") # {})
        => \A text \in {call'.content[1].text},
              case_number \in {Get(call'.arguments, "case_number", None)} :
           IF Calls(call'.log, ArticleCreates, "ok") # {}
           THEN /\ call'.kind = "text"
                /\ StartsAt(text, "KNOWLEDGE ARTICLE CREATED", 1)
                /\ Truthy(case_number)
                      => Contains(text, "\nLinked to case: " \o case_number \o "\n")
                /\ Len(kav') = Len(kav) + 1
                /\ caseArticle' # caseArticle
                      => Calls(call'.log, {"create:CaseArticle"}, "ok") # {}
           ELSE /\ call'.kind = "text"
                /\ StartsAt(text, "Error creating article: Could not create Knowledge Article.", 1)
                /\ Cardinality(Calls(call'.log, ArticleCreates, "error")) = 2
                /\ \A i \in 1..Len(call'.log) :
                      call'.log[i].op \notin {"query:Case", "create:CaseArticle"}
                /\ UNCHANGED <<kav, caseArticle>>]_vars

C28_Witness ==
    /\ call.name = "create_knowledge_article"
    /\ call.kind = "text"
    /\ Calls(call.log, {"create:CaseArticle"}, "error") # {}
    /\ StartsAt(Text, "KNOWLEDGE ARTICLE CREATED", 1)
    /\ Contains(Text, "\nLinked to case: " \o ExistingCase \o "\n")
    /\ Len(kav) = 1
    /\ caseArticle = {}


\* the call ended in call_tool's final raise: an exception with no upstream
\* call before it (a tool that raises does so after its login has failed)
ReachedToolNotFound == call.kind = "raise" /\ call.log = << >>

\* C29: an invocation under a name list_tools advertises is answered by that
\* tool's handler and never ends in the 'Tool not found' error; an
\* invocation under any other name ends in that error; and no name is
\* advertised twice
C29_AdvertisedIsHandled ==
    /\ Cardinality(ToolNames) = Len(list_tools)
    /\ Finished => (call.name \in ToolNames <=> ~ReachedToolNotFound)

C29_Witness ==
    /\ call.name = "create_knowledge_article"
    /\ call.name = list_tools[Len(list_tools)].name
    /\ call.kind = "text"
    /\ Len(kav) = 1


\* C30: every handle_request invocation ends, with an answer or with the
\* exception of the tool it dispatched to; it invokes call_tool again at
\* most once, under an advertised name other than handle_request, and the
\* tool invoked that way invokes none
C30_OneLevelOfNesting ==
    (Finished /\ call.name = "handle_request")
        => /\ call.kind \in {"text", "raise"}
           /\ Len(call.inner) <= 1
           /\ \A i \in 1..Len(call.inner) :
                 /\ call.inner[i].name # "handle_request"
                 /\ call.inner[i].name \in ToolNames

C30_Witness ==
    /\ call.name = "handle_request"
    /\ call.kind = "text"
    /\ Len(call.inner) = 1
    /\ call.inner[1].name = "search_cases"
    /\ call.inner[1].arguments.query_string = "printer error"


\* the query text the search tool was given
GivenQuery ==
    Get(call.arguments, IF call.name = "search" THEN "query" ELSE "query_string", None)

\* the whitespace-separated tokens of the text that have two characters or more
LongTokens(text) == SelectSeq(Split(text), LAMBDA t : Len(t) >= 2)

\* two LIKE conditions per token, on Subject and on Description, joined by OR
RECURSIVE ExpectedWhere(_)
ExpectedWhere(tokens) ==
    IF tokens = << >> THEN ""
    ELSE "Subject LIKE '%" \o escape_soql(Head(tokens)) \o "%' OR Description LIKE '%"
         \o escape_soql(Head(tokens)) \o "%'"
         \o (IF Len(tokens) = 1 THEN "" ELSE " OR " \o ExpectedWhere(Tail(tokens)))

\* C23: a search that reaches the partial-match search (_search_cases_fuzzy)
\* with a query text issues exactly one upstream query, whose conditions are
\* the Subject and Description LIKE conditions of the whitespace-separated
\* tokens of two or more characters, in their order, when there is such a
\* token; when there is none it issues no partial-match query and the search
\* reports that no case was found
C23_FuzzyUsesLongTokens ==
    (/\ Finished
     /\ call.name \in SearchTools
     /\ GivenQuery # None
     /\ \E i \in 1..Len(call.log) : call.log[i].op = "_search_cases_fuzzy")
        => \A queries \in {SelectSeq(call.log, LAMBDA e : e.op = "query:Fuzzy")} :
              IF LongTokens(GivenQuery) = << >>
              THEN /\ queries = << >>
                   /\ StartsAt(Text, "No cases found matching that query.", 1)
              ELSE /\ Len(queries) = 1
                   /\ queries[1].arg = ExpectedWhere(LongTokens(GivenQuery))

C23_Witness ==
    /\ call.name = "search_cases"
    /\ GivenQuery = "a PC  error x"
    /\ \E i \in 1..Len(call.log) :
          /\ call.log[i].op = "query:Fuzzy"
          /\ call.log[i].out = "ok"
          /\ call.log[i].n = 1
          /\ call.log[i].arg = "Subject LIKE '%PC%' OR Description LIKE '%PC%' OR Subject LIKE '%error%' OR Description LIKE '%error%'"
    /\ StartsAt(Text, "Found 1 cases:", 1)


\* the list-returning reads the adapter issues
ListReads ==
    {"search", "query:Fuzzy", "query:CaseComment", "query:CaseHistory", "query:CaseFeed",
     "query:Related", "query:CaseArticle", "query:EmailMessage"}

\* C24: no list-returning read of the adapter (full-text search,
\* partial-match search, comments, history, feed, related cases, articles,
\* emails) returns more than 50 records
C24_ReadsAreCapped ==
    Finished
        => \A i \in 1..Len(call.log) :
              (call.log[i].layer = "upstream" /\ call.log[i].op \in ListReads)
                  => call.log[i].n <= 50


\* a line of the RISK FACTORS section of the analysis
Risk(message) == Contains(Text, "\n  " \o message \o "\n")

\* the analysis reports this many days since the last update (NoDays: unknown)
DaysShown(d) ==
    Contains(Text, "\n  Days Since Update: "
                       \o (IF d = NoDays THEN "None" ELSE ToString(d)) \o "\n")

ProbedDays == {NoDays} \cup (0..(StaleDays + 1))

AnalysedCase == cases[ExistingCase]

NotReady ==
    ~(AnalysedCase.Fix_Status__c = "Implemented"
      /\ AnalysedCase.Validation_Status__c = "Completed")

ManyRelatedFound ==
    \E i \in 1..Len(call.log) :
        /\ call.log[i].layer = "upstream"
        /\ call.log[i].op = "query:Related"
        /\ call.log[i].n > 3

\* C21: the full-depth analysis of a case lists each risk message exactly when
\* its own condition holds, whatever the other conditions are: no activity
\* when the days since the last update exceed 14, no comments when the case
\* has none, high priority unresolved when the priority is High and the case
\* is not ready to close, multiple similar cases when more than 3 related
\* cases were found; and there is no risk section when none holds
C21_EachRiskOnItsOwnCondition ==
    (call.name = "analyze_case" /\ call.kind = "text")
        => /\ \E d \in ProbedDays : DaysShown(d)
           /\ \A d \in ProbedDays :
                 DaysShown(d)
                     => (Risk("No activity for 14+ days") <=> (d # NoDays /\ d > 14))
           /\ Risk("No comments on case") <=> (comments[ExistingId] = 0)
           /\ Risk("High priority case not yet resolved")
                 <=> (AnalysedCase.Priority = "High" /\ NotReady)
           /\ Risk("Multiple similar cases exist - possible systemic issue")
                 <=> ManyRelatedFound
           /\ Contains(Text, "\nRISK FACTORS\n")
                 <=> \/ \E d \in ProbedDays : DaysShown(d) /\ d # NoDays /\ d > 14
                     \/ comments[ExistingId] = 0
                     \/ AnalysedCase.Priority = "High" /\ NotReady
                     \/ ManyRelatedFound

\* a stale case with no comments, of high priority and not ready, with many
\* related cases: all four messages, in the order of the checks
C21_Witness ==
    /\ call.name = "analyze_case"
    /\ call.kind = "text"
    /\ DaysShown(StaleDays + 1)
    /\ comments[ExistingId] = 0
    /\ AnalysedCase.Priority = "High"
    /\ NotReady
    /\ ManyRelatedFound
    /\ Contains(Text, "\nRISK FACTORS\n  No activity for 14+ days\n  No comments on case\n  High priority case not yet resolved\n  Multiple similar cases exist - possible systemic issue\n\nDESCRIPTION\n")


\* some keyword of the i-th priority group occurs in the lower-cased subject
\* or description of the triaged case
GroupHit(i) ==
    \E k \in 1..Len(priority_indicators[i].keywords) :
        \/ Contains(Lower(OrText(AnalysedCase.Subject, "")),
                    priority_indicators[i].keywords[k])
        \/ Contains(Lower(OrText(AnalysedCase.Description, "")),
                    priority_indicators[i].keywords[k])

ExpectedPriority ==
    IF GroupHit(1) THEN "Critical"
    ELSE IF GroupHit(2) THEN "High"
    ELSE IF GroupHit(3) THEN "Medium"
    ELSE IF GroupHit(4) THEN "Low"
    ELSE AnalysedCase.Priority

\* C26: triage_new_case recommends the capitalised name of the first of the
\* groups critical, high, medium, low that has a keyword occurring as a
\* substring of the lower-cased subject or description, and the case's current
\* priority when no group has one
C26_FirstGroupWithKeyword ==
    (call.name = "triage_new_case" /\ call.kind = "text")
        => /\ priority_indicators[1].priority = "critical"
           /\ priority_indicators[2].priority = "high"
           /\ priority_indicators[3].priority = "medium"
           /\ priority_indicators[4].priority = "low"
           /\ Contains(Text, "\n  Recommended: " \o ExpectedPriority \o "\n")

\* 'down' inside "Countdown" outranks the low-priority keyword 'question'
C26_Witness ==
    /\ call.name = "triage_new_case"
    /\ call.kind = "text"
    /\ AnalysedCase.Subject = "Countdown timer"
    /\ AnalysedCase.Description = "A question"
    /\ AnalysedCase.Priority = "Low"
    /\ GroupHit(1) /\ ~GroupHit(2) /\ ~GroupHit(3) /\ GroupHit(4)
    /\ Contains(Text, "\n  Current: Low\n  Recommended: Critical\n  Reason: Keywords detected: down\n")

====
